---- MODULE Spec2Model ----
(***************************************************************************)
(* golox: a single-pass Pratt compiler to bytecode and a stack VM for Lox. *)
(*                                                                         *)
(* The model follows the source: a source line is a sequence of lexemes,   *)
(* the Parser compiles it into function prototypes (byte sequences with a  *)
(* line table and a constant pool), and the VM executes one instruction    *)
(* per step.  Go's slice semantics are kept: the value stack is a slice    *)
(* (backing array, length), `append` reallocates when the capacity is      *)
(* exhausted, and a pointer `&vm.stack[i]` keeps pointing into the backing *)
(* array it was taken from.                                                *)
(***************************************************************************)
EXTENDS Integers, Sequences, FiniteSets, TLC

(***************************************************************************)
(* Generic helpers                                                         *)
(***************************************************************************)
Last(s) == s[Len(s)]

Front(s) == SubSeq(s, 1, Len(s) - 1)

SetLast(s, x) == [s EXCEPT ![Len(s)] = x]

\* Index of the first element of s equal to x, 0-based, or -1 (slices.Index).
Index(s, x) ==
    IF \A i \in 1..Len(s) : s[i] # x THEN -1
    ELSE (CHOOSE i \in 1..Len(s) :
              s[i] = x /\ \A j \in 1..(i - 1) : s[j] # x) - 1

(***************************************************************************)
(* Natural numbers of any size, for the arithmetic of float64: a sequence  *)
(* of digits in base 2^15, the lowest first, the highest not 0; <<>> is 0. *)
(***************************************************************************)
Base == 2 ^ 15

Max(a, b) == IF a > b THEN a ELSE b

Min(a, b) == IF a < b THEN a ELSE b

Abs(k) == IF k < 0 THEN -k ELSE k

BigTrim(a) ==
    IF \A i \in 1..Len(a) : a[i] = 0 THEN <<>>
    ELSE SubSeq(a, 1, CHOOSE i \in 1..Len(a) :
                          a[i] # 0 /\ \A j \in (i + 1)..Len(a) : a[j] = 0)

\* The number n, 0 <= n < 2^31.
BigOf(n) == BigTrim(<<n % Base, (n \div Base) % Base, n \div (Base * Base)>>)

\* The integer of a number below 2^30.
BigInt(a) ==
    IF a = <<>> THEN 0 ELSE IF Len(a) = 1 THEN a[1] ELSE a[1] + Base * a[2]

Limb(a, i) == IF i >= 1 /\ i <= Len(a) THEN a[i] ELSE 0

\* -1, 0 or 1 as a < b, a = b or a > b.
BigCmp(a, b) ==
    IF Len(a) # Len(b) THEN (IF Len(a) < Len(b) THEN -1 ELSE 1)
    ELSE IF a = b THEN 0
    ELSE LET i == CHOOSE i \in 1..Len(a) :
                      a[i] # b[i] /\ \A j \in (i + 1)..Len(a) : a[j] = b[j]
         IN IF a[i] < b[i] THEN -1 ELSE 1

\* The digits x.d with the carry x.c above them.
BigCarry(x) == IF x.c = 0 THEN x.d ELSE x.d \o <<x.c>>

\* The digits lo..hi of a + b + carry, and the carry out of them.
RECURSIVE BigAddRange(_, _, _, _, _)
BigAddRange(a, b, lo, hi, carry) ==
    IF lo > hi THEN [d |-> <<>>, c |-> carry]
    ELSE IF lo = hi
    THEN [d |-> <<(Limb(a, lo) + Limb(b, lo) + carry) % Base>>,
          c |-> (Limb(a, lo) + Limb(b, lo) + carry) \div Base]
    ELSE LET low == BigAddRange(a, b, lo, (lo + hi) \div 2, carry)
             high == BigAddRange(a, b, ((lo + hi) \div 2) + 1, hi, low.c)
         IN [d |-> low.d \o high.d, c |-> high.c]

BigAdd(a, b) ==
    IF a = <<>> THEN b
    ELSE IF b = <<>> THEN a
    ELSE BigCarry(BigAddRange(a, b, 1, Max(Len(a), Len(b)), 0))

\* The digits lo..hi of a - b - borrow, and the borrow out of them.
RECURSIVE BigSubRange(_, _, _, _, _)
BigSubRange(a, b, lo, hi, borrow) ==
    IF lo > hi THEN [d |-> <<>>, c |-> borrow]
    ELSE IF lo = hi
    THEN [d |-> <<(a[lo] - Limb(b, lo) - borrow + Base) % Base>>,
          c |-> IF a[lo] - Limb(b, lo) - borrow < 0 THEN 1 ELSE 0]
    ELSE LET low == BigSubRange(a, b, lo, (lo + hi) \div 2, borrow)
             high == BigSubRange(a, b, ((lo + hi) \div 2) + 1, hi, low.c)
         IN [d |-> low.d \o high.d, c |-> high.c]

\* a - b for a >= b.
BigSub(a, b) ==
    IF b = <<>> THEN a
    ELSE IF a = b THEN <<>>
    ELSE BigTrim(BigSubRange(a, b, 1, Len(a), 0).d)

\* The digits lo..hi of a * k + carry, and the carry out of them.
RECURSIVE BigScaleRange(_, _, _, _, _)
BigScaleRange(a, k, lo, hi, carry) ==
    IF lo > hi THEN [d |-> <<>>, c |-> carry]
    ELSE IF lo = hi
    THEN [d |-> <<(a[lo] * k + carry) % Base>>, c |-> (a[lo] * k + carry) \div Base]
    ELSE LET low == BigScaleRange(a, k, lo, (lo + hi) \div 2, carry)
             high == BigScaleRange(a, k, ((lo + hi) \div 2) + 1, hi, low.c)
         IN [d |-> low.d \o high.d, c |-> high.c]

\* a * k for 0 <= k <= Base.
BigScale(a, k) ==
    IF a = <<>> \/ k = 0 THEN <<>>
    ELSE IF k = 1 THEN a
    ELSE BigCarry(BigScaleRange(a, k, 1, Len(a), 0))

\* a times the digits lo..hi of b, in their places.
RECURSIVE BigMulRange(_, _, _, _)
BigMulRange(a, b, lo, hi) ==
    IF lo = hi
    THEN (IF b[lo] = 0 THEN <<>> ELSE [i \in 1..(lo - 1) |-> 0] \o BigScale(a, b[lo]))
    ELSE BigAdd(BigMulRange(a, b, lo, (lo + hi) \div 2),
                BigMulRange(a, b, ((lo + hi) \div 2) + 1, hi))

BigMul(a, b) == IF a = <<>> \/ b = <<>> THEN <<>> ELSE BigMulRange(a, b, 1, Len(b))

\* a * 2^k and the integer part of a / 2^k, k >= 0.
BigShl(a, k) ==
    IF a = <<>> THEN <<>>
    ELSE IF k = 0 THEN a
    ELSE [i \in 1..(k \div 15) |-> 0] \o BigScale(a, 2 ^ (k % 15))

BigShr(a, k) ==
    IF k \div 15 >= Len(a) THEN <<>>
    ELSE IF k <= 0 THEN a
    ELSE Tail(BigScale(SubSeq(a, (k \div 15) + 1, Len(a)), 2 ^ (15 - (k % 15))))

\* Bit i of a, the lowest being bit 0.
BigBit(a, i) == (Limb(a, (i \div 15) + 1) \div (2 ^ (i % 15))) % 2

\* The number of bits of a, and the number of 0 bits below its lowest 1.
BigBitLen(a) ==
    IF a = <<>> THEN 0
    ELSE 15 * (Len(a) - 1)
         + (CHOOSE n \in 1..15 : 2 ^ (n - 1) <= a[Len(a)] /\ a[Len(a)] < 2 ^ n)

BigTrailingZeros(a) ==
    LET i == CHOOSE i \in 1..Len(a) : a[i] # 0 /\ \A j \in 1..(i - 1) : a[j] = 0
    IN 15 * (i - 1) + (CHOOSE n \in 0..14 : a[i] % (2 ^ (n + 1)) = 2 ^ n)

\* Long division (Knuth's algorithm D).  The digits i..1 of a are still to
\* come, r < b is the remainder so far, and the highest digit of b is at
\* least Base / 2: then the quotient of the two highest digits of the
\* remainder by the highest digit of b is the next digit of the quotient
\* or exceeds it by at most 2.  The digits come highest first.
RECURSIVE BigDivFrom(_, _, _, _)
\* The digit d before the digits of rest.
BigDivCons(d, rest) == [q |-> <<d>> \o rest.q, r |-> rest.r]

\* The next digit is d, and the division goes on from what d leaves of r1.
BigDivNext(a, b, i, r1, d) ==
    BigDivCons(d, BigDivFrom(a, b, i - 1, BigSub(r1, BigScale(b, d))))

\* The next digit of the quotient, for the remainder r1 with its new digit.
BigDivDigit(b, r1) ==
    LET est == Min((Limb(r1, Len(b) + 1) * Base + Limb(r1, Len(b)))
                       \div b[Len(b)],
                   Base - 1)
    IN CHOOSE k \in Max(est - 2, 0)..est :
           /\ BigCmp(BigScale(b, k), r1) <= 0
           /\ BigCmp(BigScale(b, k + 1), r1) > 0

BigDivFrom(a, b, i, r) ==
    IF i = 0 THEN [q |-> <<>>, r |-> r]
    ELSE BigDivNext(a, b, i, BigTrim(<<a[i]>> \o r),
                    BigDivDigit(b, BigTrim(<<a[i]>> \o r)))

\* The quotient and remainder x of the division of i digits, which was
\* shifted by sh: the digits of the quotient lowest first, the remainder
\* shifted back.
BigDivResult(x, i, sh) ==
    [q |-> BigTrim([j \in 1..i |-> x.q[i + 1 - j]]), r |-> BigShr(x.r, sh)]

\* an by bn, both shifted by sh.
BigDivShifted(an, bn, sh) ==
    LET i == Max(Len(an) - Len(bn) + 1, 0)
    IN BigDivResult(BigDivFrom(an, bn, i, SubSeq(an, i + 1, Len(an))), i, sh)

\* Quotient and remainder of a by b, b # 0.  Both are shifted to bring the
\* highest digit of b to Base / 2 or above, which leaves the quotient as
\* it is; the highest Len(b) - 1 digits of a are below b and start as the
\* remainder.
BigDivMod(a, b) ==
    IF BigCmp(a, b) < 0 THEN [q |-> <<>>, r |-> a]
    ELSE IF b = <<1>> THEN [q |-> a, r |-> <<>>]
    ELSE BigDivShifted(BigShl(a, 15 * Len(b) - BigBitLen(b)),
                       BigShl(b, 15 * Len(b) - BigBitLen(b)),
                       15 * Len(b) - BigBitLen(b))

BigSquare(a) == BigMul(a, a)

\* 10^k: an integer up to 10^9, or the square of 10^(k div 2), times 10
\* for an odd k.
RECURSIVE BigPow10(_)
BigPow10(k) ==
    IF k <= 9 THEN BigOf(10 ^ k)
    ELSE BigScale(BigSquare(BigPow10(k \div 2)), IF k % 2 = 1 THEN 10 ELSE 1)

(***************************************************************************)
(* Runtime values (value.go).  Every value is a record [t, n, s, f]:       *)
(*   t  the dynamic type held by the Value interface,                      *)
(*   n  the number when it is a small integer, the boolean (0/1), or the   *)
(*      address of a heap object,                                          *)
(*   s  the characters of a string,                                        *)
(*   f  the float64 of a number that is not a small integer.               *)
(* A *VStr is a pointer: n is its address, s its content.                  *)
(***************************************************************************)
VNil == [t |-> "nil", n |-> 0, s |-> "", f |-> <<>>]

VBool(b) ==
    [t |-> "bool", n |-> IF b THEN 1 ELSE 0, s |-> "", f |-> <<>>]

VNum(k) == [t |-> "num", n |-> k, s |-> "", f |-> <<>>]

VStr(addr, chars) == [t |-> "str", n |-> addr, s |-> chars, f |-> <<>>]

VFun(id) == [t |-> "fun", n |-> id, s |-> "", f |-> <<>>]

VClos(id) == [t |-> "clos", n |-> id, s |-> "", f |-> <<>>]

VNativeFun == [t |-> "native", n |-> 0, s |-> "", f |-> <<>>]

VClass(id) == [t |-> "class", n |-> id, s |-> "", f |-> <<>>]

VInstance(id) == [t |-> "instance", n |-> id, s |-> "", f |-> <<>>]

VBoundMethod(id) == [t |-> "bound", n |-> id, s |-> "", f |-> <<>>]

\* The zero Value of a backing-array element that was never written.
ZeroValue == [t |-> "zero", n |-> 0, s |-> "", f |-> <<>>]

VTruthy(v) ==
    CASE v.t = "bool" -> v.n = 1
      [] v.t = "nil" -> FALSE
      [] OTHER -> TRUE

(***************************************************************************)
(* float64 (IEEE 754 binary64, round to nearest even), the type of VNum.   *)
(* A number is the record [t, n, s, f]: an integer below 2^30 in absolute  *)
(* value is n with f = <<>>; any other float64 has n = 0 and f = <<c, e,   *)
(* d1, .., dk>>: c is 0 for +m*2^e, 1 for -m*2^e, 2 for +Inf, 3 for -Inf   *)
(* and 4 for NaN, d1..dk are the digits of m, which is odd or is 0 (-0).   *)
(* Every float64 has one record.  For the arithmetic a number is unpacked  *)
(* into [cls, neg, m, e].                                                  *)
(***************************************************************************)
F64(code, e, m) == [t |-> "num", n |-> 0, s |-> "", f |-> <<code, e>> \o m]

NaN == F64(4, 0, <<>>)

Inf(neg) == F64(IF neg THEN 3 ELSE 2, 0, <<>>)

Zero(neg) == IF neg THEN F64(1, 0, <<>>) ELSE VNum(0)

F64Of(v) ==
    IF v.f = <<>>
    THEN [cls |-> "fin", neg |-> v.n < 0, m |-> BigOf(Abs(v.n)), e |-> 0]
    ELSE [cls |-> CASE v.f[1] \in {0, 1} -> "fin"
                    [] v.f[1] \in {2, 3} -> "inf"
                    [] OTHER -> "nan",
          neg |-> v.f[1] \in {1, 3},
          m |-> SubSeq(v.f, 3, Len(v.f)),
          e |-> v.f[2]]

\* The record of the float64 (-1)^neg * odd * 2^e, odd being odd.
F64Odd(neg, odd, e) ==
    IF e >= 0 /\ BigBitLen(odd) + e <= 30
    THEN VNum((IF neg THEN -1 ELSE 1) * BigInt(BigShl(odd, e)))
    ELSE F64(IF neg THEN 1 ELSE 0, e, odd)

\* The record of (-1)^neg * m * 2^e, which is a float64 or is beyond the
\* largest one.
F64Pack(neg, m, e) ==
    IF m = <<>> THEN Zero(neg)
    ELSE IF BigBitLen(m) + e > 1024 THEN Inf(neg)
    ELSE F64Odd(neg, BigShr(m, BigTrailingZeros(m)), e + BigTrailingZeros(m))

\* q or the number above it: q is m without its sh lowest bits, half is
\* the highest of these and more tells that a lower one is set.
F64Nearest(q, half, more) ==
    IF half /\ (more \/ BigBit(q, 0) = 1) THEN BigAdd(q, <<1>>) ELSE q

\* m / 2^sh to the nearest integer, the even one of two that are equally
\* near; m itself for sh <= 0.
F64Kept(m, sh) ==
    IF sh <= 0 THEN m
    ELSE F64Nearest(BigShr(m, sh), BigBit(m, sh - 1) = 1,
                    BigShl(BigShr(m, sh - 1), sh - 1) # m)

\* The float64 nearest to (-1)^neg * m * 2^e, the even one of two that are
\* equally near: 53 bits are kept, fewer below 2^-1022.
F64Round(neg, m, e) ==
    IF m = <<>> THEN Zero(neg)
    ELSE F64Pack(neg, F64Kept(m, Max(BigBitLen(m) + e - 53, -1074) - e),
                 e + Max(Max(BigBitLen(m) + e - 53, -1074) - e, 0))

\* Twice the quotient d.q, plus one when the division left something
\* over: a remainder, or bits of the dividend that it did not take.
F64Sticky(d, whole) ==
    BigAdd(BigShl(d.q, 1), IF d.r = <<>> /\ whole THEN <<>> ELSE <<1>>)

\* The float64 nearest to (-1)^neg * (a / b) * 2^e, a # 0 and b # 0: the
\* quotient is taken to 64 bits or a few more, and what is left over is
\* kept as one more bit.
F64Quot(neg, a, b, e) ==
    LET s == Max(0, 64 + BigBitLen(b) - BigBitLen(a))
        t == Max(0, BigBitLen(a) - BigBitLen(b) - 66)
    IN F64Round(neg,
                F64Sticky(BigDivMod(BigShl(BigShr(a, t), s), b),
                          BigShl(BigShr(a, t), t) = a),
                e - s + t - 1)

\* The record of an unpacked float64.
F64Val(x) ==
    IF x.cls = "nan" THEN NaN
    ELSE IF x.cls = "inf" THEN Inf(x.neg)
    ELSE F64Pack(x.neg, x.m, x.e)

\* The position above the highest bit of a finite x # 0.
F64Top(x) == BigBitLen(x.m) + x.e

\* a - b or b - a, the one that is not negative.
BigDiff(a, b) == IF BigCmp(a, b) > 0 THEN BigSub(a, b) ELSE BigSub(b, a)

\* (-1)^xneg * a * 2^e + (-1)^yneg * b * 2^e
F64Sum(xneg, a, yneg, b, e) ==
    IF xneg = yneg THEN F64Round(xneg, BigAdd(a, b), e)
    ELSE IF BigCmp(a, b) = 0 THEN Zero(FALSE)
    ELSE F64Round(IF BigCmp(a, b) > 0 THEN xneg ELSE yneg, BigDiff(a, b), e)

\* x + y
F64Add(x, y) ==
    IF x.cls = "nan" \/ y.cls = "nan" THEN NaN
    ELSE IF x.cls = "inf" /\ y.cls = "inf"
    THEN (IF x.neg = y.neg THEN Inf(x.neg) ELSE NaN)
    ELSE IF x.cls = "inf" THEN Inf(x.neg)
    ELSE IF y.cls = "inf" THEN Inf(y.neg)
    ELSE IF x.m = <<>> /\ y.m = <<>> THEN Zero(x.neg /\ y.neg)
    \* A zero changes nothing, and neither does a term below a quarter of
    \* the other's last bit.
    ELSE IF x.m = <<>> \/ y.m = <<>> \/ Abs(F64Top(x) - F64Top(y)) > 64
    THEN F64Val(IF y.m = <<>> \/ (x.m # <<>> /\ F64Top(x) > F64Top(y))
                THEN x ELSE y)
    ELSE F64Sum(x.neg, BigShl(x.m, x.e - Min(x.e, y.e)),
                y.neg, BigShl(y.m, y.e - Min(x.e, y.e)), Min(x.e, y.e))

\* -x
F64Neg(x) == F64Val([x EXCEPT !.neg = ~x.neg])

\* x - y
F64Sub(x, y) == F64Add(x, [y EXCEPT !.neg = ~y.neg])

\* x * y
F64Mul(x, y) ==
    IF x.cls = "nan" \/ y.cls = "nan" THEN NaN
    ELSE IF x.cls = "inf" \/ y.cls = "inf"
    THEN (IF (x.cls = "fin" /\ x.m = <<>>) \/ (y.cls = "fin" /\ y.m = <<>>)
          THEN NaN ELSE Inf(x.neg # y.neg))
    ELSE F64Round(x.neg # y.neg, BigMul(x.m, y.m), x.e + y.e)

\* x / y
F64Div(x, y) ==
    IF x.cls = "nan" \/ y.cls = "nan" THEN NaN
    ELSE IF x.cls = "inf" THEN (IF y.cls = "inf" THEN NaN ELSE Inf(x.neg # y.neg))
    ELSE IF y.cls = "inf" THEN Zero(x.neg # y.neg)
    ELSE IF y.m = <<>> THEN (IF x.m = <<>> THEN NaN ELSE Inf(x.neg # y.neg))
    ELSE IF x.m = <<>> THEN Zero(x.neg # y.neg)
    ELSE F64Quot(x.neg # y.neg, x.m, y.m, x.e - y.e)

\* -1, 0 or 1 as |x| < |y|, |x| = |y| or |x| > |y|; neither is a NaN.
F64CmpAbs(x, y) ==
    LET e0 == Min(x.e, y.e) IN
    IF x.cls = "inf" \/ y.cls = "inf"
    THEN (IF x.cls = y.cls THEN 0 ELSE IF x.cls = "inf" THEN 1 ELSE -1)
    ELSE IF x.m = <<>> \/ y.m = <<>>
    THEN (IF x.m = y.m THEN 0 ELSE IF x.m = <<>> THEN -1 ELSE 1)
    ELSE IF F64Top(x) # F64Top(y) THEN (IF F64Top(x) < F64Top(y) THEN -1 ELSE 1)
    ELSE BigCmp(BigShl(x.m, x.e - e0), BigShl(y.m, y.e - e0))

\* -1, 0 or 1 as x < y, x == y or x > y; neither is a NaN.  -0 == 0.
F64Cmp(x, y) ==
    IF x.cls = "fin" /\ y.cls = "fin" /\ x.m = <<>> /\ y.m = <<>> THEN 0
    ELSE IF x.neg # y.neg THEN (IF x.neg THEN -1 ELSE 1)
    ELSE IF x.neg THEN -F64CmpAbs(x, y) ELSE F64CmpAbs(x, y)

F64Less(x, y) == x.cls # "nan" /\ y.cls # "nan" /\ F64Cmp(x, y) < 0

F64Eq(x, y) == x.cls # "nan" /\ y.cls # "nan" /\ F64Cmp(x, y) = 0

(* strconv.ParseFloat of a number literal: digits, or digits.digits *)
DigitOf(c) == CHOOSE d \in 0..9 : ToString(d) = c

\* The number the digits spell: up to 9 of them as an integer, more in two
\* halves.
RECURSIVE IntOfDigits(_)
IntOfDigits(digits) ==
    IF Len(digits) = 1 THEN DigitOf(digits)
    ELSE IntOfDigits(SubSeq(digits, 1, Len(digits) \div 2))
             * 10 ^ (Len(digits) - (Len(digits) \div 2))
         + IntOfDigits(SubSeq(digits, (Len(digits) \div 2) + 1, Len(digits)))

RECURSIVE BigOfDigits(_)
BigOfDigits(digits) ==
    IF Len(digits) = 0 THEN <<>>
    ELSE IF Len(digits) <= 9 THEN BigOf(IntOfDigits(digits))
    ELSE BigAdd(BigMul(BigOfDigits(SubSeq(digits, 1, Len(digits) \div 2)),
                       BigPow10(Len(digits) - (Len(digits) \div 2))),
                BigOfDigits(SubSeq(digits, (Len(digits) \div 2) + 1, Len(digits))))

\* The place of the "." in the literal, 0 when it has none.
PointAt(text) ==
    IF \A i \in 1..Len(text) : SubSeq(text, i, i) # "." THEN 0
    ELSE CHOOSE i \in 1..Len(text) : SubSeq(text, i, i) = "."

\* The float64 nearest to digits / 10^places.
F64Decimal(digits, places) ==
    IF digits = <<>> THEN VNum(0)
    ELSE F64Quot(FALSE, digits, BigPow10(places), 0)

\* The nearest float64 as ParseFloat returns it: +Inf comes with the range
\* error.
Parsed(val) ==
    [val |-> val, err |-> IF val = Inf(FALSE) THEN "value out of range" ELSE ""]

\* strconv.ParseFloat(text, 64): the nearest float64, and the range error
\* of a literal that is beyond the largest one.
ParseFloat(text) ==
    LET p == PointAt(text)
        digits == IF p = 0 THEN text
                  ELSE SubSeq(text, 1, p - 1) \o SubSeq(text, p + 1, Len(text))
    IN IF p = 0 /\ Len(text) <= 9 THEN [val |-> VNum(IntOfDigits(text)), err |-> ""]
       ELSE Parsed(F64Decimal(BigOfDigits(digits),
                              IF p = 0 THEN 0 ELSE Len(text) - p))

(* fmt's %g of a float64: the shortest digits that give the float64 back  *)
\* The digits of r/s < 1: 10*r/s is split into a digit and a rest,
\* and the digits end as soon as the rest is within mm below or mp above
\* (the halves of the gaps to the neighbours; the ends count for an even
\* float).
RECURSIVE F64Gen(_, _, _, _, _)
\* The digits from d on.  c1, c2 and c3 are -1, 0 or 1: rest against mm,
\* rest + mp against s, and twice rest against s.
F64GenEnd(d, rest, s, mp, mm, even, c1, c2, c3) ==
    LET low == c1 < 0 \/ (even /\ c1 = 0)
        high == c2 > 0 \/ (even /\ c2 = 0)
    IN IF ~low /\ ~high THEN <<d>> \o F64Gen(rest, s, mp, mm, even)
       ELSE IF low /\ ~high THEN <<d>>
       ELSE IF high /\ ~low THEN <<d + 1>>
       \* Both are in reach: the nearer one, the even one of two as near.
       ELSE IF c3 < 0 THEN <<d>>
       ELSE IF c3 > 0 THEN <<d + 1>>
       ELSE <<d + (d % 2)>>

\* The digits from d on, the digit of r / s, with mp and mm on the scale
\* of r.
F64GenDigit(d, r, s, mp, mm, even) ==
    LET rest == BigSub(r, BigScale(s, d))
    IN F64GenEnd(d, rest, s, mp, mm, even, BigCmp(rest, mm),
                 BigCmp(BigAdd(rest, mp), s), BigCmp(BigScale(rest, 2), s))

F64Gen(r, s, mp, mm, even) ==
    F64GenDigit(CHOOSE k \in 0..9 :
                    /\ BigCmp(BigScale(s, k), BigScale(r, 10)) <= 0
                    /\ BigCmp(BigScale(s, k + 1), BigScale(r, 10)) > 0,
                BigScale(r, 10), s, BigScale(mp, 10), BigScale(mm, 10), even)

\* top / s < 10^k, or = 10^k for a float that is not even.
F64Below(top, s, even, k) ==
    LET c == BigCmp(BigMul(top, BigPow10(Max(-k, 0))),
                    BigMul(s, BigPow10(Max(k, 0))))
    IN c < 0 \/ (~even /\ c = 0)

\* The digits of r/s, which has dp digits before its point.
F64Scaled(r, s, mp, mm, even, dp, up) ==
    [digits |-> F64Gen(BigMul(r, up), BigMul(s, BigPow10(Max(dp, 0))),
                       BigMul(mp, up), BigMul(mm, up), even),
     dp |-> dp]

F64Pointed(r, s, mp, mm, even, dp) ==
    F64Scaled(r, s, mp, mm, even, dp, BigPow10(Max(-dp, 0)))

\* The shortest decimal of r/s within mm below and mp above; the number of
\* the digits before its point is est or near it.
F64Shortest(r, s, mp, mm, even, est) ==
    F64Pointed(r, s, mp, mm, even,
               CHOOSE k \in (est - 2)..(est + 2) :
                   /\ F64Below(BigAdd(r, mp), s, even, k)
                   /\ ~F64Below(BigAdd(r, mp), s, even, k - 1))

\* The shortest decimal of m * 2^e, a float64 with m odd: digits d1..dn and
\* dp, for 0.d1..dn * 10^dp.
F64Digits(m, e) ==
    LET E == Max(BigBitLen(m) + e - 53, -1074)
        \* The float below is nearer than the one above.
        k2 == IF m = <<1>> /\ E > -1074 THEN 2 ELSE 1
    IN F64Shortest(BigShl(BigShl(m, e - E), k2 + Max(E, 0)),
                   BigShl(<<1>>, k2 + Max(-E, 0)),
                   BigShl(<<1>>, (k2 - 1) + Max(E, 0)),
                   BigShl(<<1>>, Max(E, 0)),
                   BigBit(BigShl(m, e - E), 0) = 0,
                   ((BigBitLen(m) + e + 1100) * 30103) \div 100000 - 331)

RECURSIVE DigitText(_)
DigitText(ds) == IF ds = <<>> THEN "" ELSE ToString(Head(ds)) \o DigitText(Tail(ds))

Zeros(n) == DigitText([i \in 1..n |-> 0])

\* %e and %f of the digits, as %g chooses between them: %e for an exponent
\* below -4 or from 6 on.
FormatG(d) ==
    LET ds == d.digits
        dp == d.dp
        exp == dp - 1 IN
    IF exp < -4 \/ exp >= 6
    THEN ToString(ds[1])
         \o (IF Len(ds) > 1 THEN "." \o DigitText(Tail(ds)) ELSE "")
         \o "e" \o (IF exp < 0 THEN "-" ELSE "+")
         \o (IF Abs(exp) < 10 THEN "0" ELSE "") \o ToString(Abs(exp))
    ELSE IF dp <= 0 THEN "0." \o Zeros(-dp) \o DigitText(ds)
    ELSE IF Len(ds) <= dp THEN DigitText(ds) \o Zeros(dp - Len(ds))
    ELSE DigitText(SubSeq(ds, 1, dp)) \o "." \o DigitText(SubSeq(ds, dp + 1, Len(ds)))

\* fmt.Sprintf("%g", v)
NumString(v) ==
    LET x == F64Of(v)
    IN IF x.cls = "nan" THEN "NaN"
       ELSE IF x.cls = "inf" THEN (IF x.neg THEN "-Inf" ELSE "+Inf")
       ELSE IF x.m = <<>> THEN (IF x.neg THEN "-0" ELSE "0")
       ELSE (IF x.neg THEN "-" ELSE "")
            \o FormatG(F64Digits(BigShr(x.m, BigTrailingZeros(x.m)),
                                 x.e + BigTrailingZeros(x.m)))

\* v == w on two interface values: same dynamic type and equal float64s
\* (a NaN equals nothing, -0 equals 0), or the same boolean or pointer.
VEq(v, w) ==
    IF v.t = "num" /\ w.t = "num" THEN F64Eq(F64Of(v), F64Of(w))
    ELSE v.t = w.t /\ v.n = w.n

(***************************************************************************)
(* Tokens (scanner.go).  A source is a sequence of lexemes, each the runes *)
(* of one token; the lexeme "\n" is a line break.  The scanner of the      *)
(* Parser goes lexeme by lexeme, and rune by rune through a string         *)
(* literal.                                                                *)
(***************************************************************************)
Token(ty, line, runes) == [Type |-> ty, Line |-> line, Runes |-> runes]

\* Token{}: the zero TokenType is TLParen, no runes.
ZeroToken == Token("TLParen", 0, "")

Keywords ==
    [x \in {"and", "break", "class", "continue", "else", "false", "for",
            "fun", "if", "nil", "or", "print", "return", "super", "this",
            "true", "var", "while"} |->
        CASE x = "and" -> "TAnd" [] x = "break" -> "TBreak"
          [] x = "class" -> "TClass" [] x = "continue" -> "TContinue"
          [] x = "else" -> "TElse" [] x = "false" -> "TFalse"
          [] x = "for" -> "TFor" [] x = "fun" -> "TFun"
          [] x = "if" -> "TIf" [] x = "nil" -> "TNil"
          [] x = "or" -> "TOr" [] x = "print" -> "TPrint"
          [] x = "return" -> "TReturn" [] x = "super" -> "TSuper"
          [] x = "this" -> "TThis" [] x = "true" -> "TTrue"
          [] x = "var" -> "TVar" [] x = "while" -> "TWhile"]

Punctuation ==
    [x \in {"(", ")", "{", "}", ";", ",", ".", "-", "+", "/", "*", "!", "!=",
            "=", "==", "<", "<=", ">", ">="} |->
        CASE x = "(" -> "TLParen" [] x = ")" -> "TRParen"
          [] x = "{" -> "TLBrace" [] x = "}" -> "TRBrace"
          [] x = ";" -> "TSemi" [] x = "," -> "TComma"
          [] x = "." -> "TDot" [] x = "-" -> "TMinus"
          [] x = "+" -> "TPlus" [] x = "/" -> "TSlash"
          [] x = "*" -> "TStar" [] x = "!" -> "TBang"
          [] x = "!=" -> "TBangEqual" [] x = "=" -> "TEqual"
          [] x = "==" -> "TEqualEqual" [] x = "<" -> "TLess"
          [] x = "<=" -> "TLessEqual" [] x = ">" -> "TGreater"
          [] x = ">=" -> "TGreaterEqual"]

Digits == {"0", "1", "2", "3", "4", "5", "6", "7", "8", "9"}

Letters ==
    {"a", "b", "c", "d", "e", "f", "g", "h", "i", "j", "k", "l", "m", "n", "o",
     "p", "q", "r", "s", "t", "u", "v", "w", "x", "y", "z", "A", "B", "C", "D",
     "E", "F", "G", "H", "I", "J", "K", "L", "M", "N", "O", "P", "Q", "R", "S",
     "T", "U", "V", "W", "X", "Y", "Z", "_"}

\* string(runes): the runes of a sequence of runes or of lexemes.
RECURSIVE Text(_)
Text(runes) == IF runes = <<>> THEN "" ELSE Head(runes) \o Text(Tail(runes))

\* The scanner over a source: start and curr are the 1-based indices of
\* the first lexeme of the token being scanned and of the next lexeme, so
\* that the lexemes start..curr-1 are s.src[s.start:s.curr].
NewScanner(src) == [src |-> src, start |-> 1, curr |-> 1, line |-> 1]

makeToken(s, ty) == Token(ty, s.line, Text(SubSeq(s.src, s.start, s.curr - 1)))

errorToken(s, reason) == Token("TErr", s.line, reason)

RECURSIVE skipWhitespace(_)
skipWhitespace(s) ==
    IF s.curr <= Len(s.src) /\ s.src[s.curr] = "\n"
    THEN skipWhitespace([s EXCEPT !.curr = @ + 1, !.line = @ + 1])
    ELSE s

\* ScanToken returned: the scanner after the token and the token.
Returned(s, tk) == [s |-> s, tk |-> tk, loops |-> FALSE]

\* The loop of the string literal, at rune k of lexeme i.  At a line break
\* it counts the line and does not advance: it meets the same line break in
\* every round and never ends, so that ScanToken does not return: the
\* result has loops and the scanner in the loop, and no token.  At a quote
\* it consumes the quote and returns the literal; at the end of the source
\* it returns an error token.
RECURSIVE ScanToken_string(_, _, _)
ScanToken_string(s, i, k) ==
    IF i > Len(s.src)
    THEN Returned([s EXCEPT !.curr = i],
                  errorToken([s EXCEPT !.curr = i], "unterminated string"))
    ELSE IF k > Len(s.src[i]) THEN ScanToken_string(s, i + 1, 1)
    ELSE IF SubSeq(s.src[i], k, k) = "\n"
    THEN [s |-> [s EXCEPT !.curr = i], loops |-> TRUE]
    ELSE IF SubSeq(s.src[i], k, k) = "\""
    THEN \* Consume the closing quote.
         Returned([s EXCEPT !.curr = i + 1],
                  makeToken([s EXCEPT !.curr = i + 1], "TStr"))
    ELSE ScanToken_string(s, i, k + 1)

\* ScanToken on the scanner w after the whitespace.  It goes by the first
\* rune c of the next lexeme: a digit starts a number, a letter a keyword
\* or an identifier, a quote a string literal; a rune that starts no token
\* is an unexpected character.  s1 is the scanner at the start of the
\* token (s.start = s.curr), s the scanner after the lexeme.
ScanToken_start(w) ==
    LET s1 == [w EXCEPT !.start = w.curr]
        s == [w EXCEPT !.start = w.curr, !.curr = @ + 1]
        lexeme == w.src[w.curr]
        c == SubSeq(w.src[w.curr], 1, 1)
    IN IF w.curr > Len(w.src) THEN Returned(s1, makeToken(s1, "TEOF"))
       ELSE IF c \in Digits THEN Returned(s, makeToken(s, "TNum"))
       ELSE IF c \in Letters
       THEN Returned(s, makeToken(s, IF lexeme \in DOMAIN Keywords
                                     THEN Keywords[lexeme] ELSE "TIdent"))
       ELSE IF lexeme \in DOMAIN Punctuation
       THEN Returned(s, makeToken(s, Punctuation[lexeme]))
       ELSE IF c = "\"" THEN ScanToken_string(s1, w.curr, 2)
       ELSE Returned(s, errorToken(s, "unexpected character"))

\* ScanToken: the scanner after the call and the token returned, or loops
\* when the call does not return.
ScanToken(s0) == ScanToken_start(skipWhitespace(s0))

\* Token.Eq
TokenEq(t, u) == t.Type = u.Type /\ t.Runes = u.Runes

(***************************************************************************)
(* The scanner rune by rune (scanner.go): src is the sequence of runes,    *)
(* start and curr index it from 0 as in the source.  A rune is a string of *)
(* one character, Nul the zero rune peek returns at the end.               *)
(***************************************************************************)
Nul == ""

\* The index at which a loop that advances from i while the rune is in S
\* (inS) or is not in S (~inS) stops; it stops at the end of src.
RECURSIVE AdvanceWhile(_, _, _, _)
AdvanceWhile(src, i, S, inS) ==
    IF i < Len(src) /\ ((src[i + 1] \in S) = inS)
    THEN AdvanceWhile(src, i + 1, S, inS)
    ELSE i

NewRuneScanner(src) == [src |-> src, start |-> 0, curr |-> 0, line |-> 1]

\* peek (k = 0) and peekNext (k = 1)
Scanner_peek(s, k) ==
    IF s.curr + k >= Len(s.src) THEN Nul ELSE s.src[s.curr + k + 1]

\* makeToken and errorToken
Scanner_makeToken(s, ty) ==
    Token(ty, s.line, Text(SubSeq(s.src, s.start + 1, s.curr)))

Scanner_errorToken(s, reason) == Token("TErr", s.line, reason)

RECURSIVE Scanner_skipWhitespace(_)
Scanner_skipWhitespace(s) ==
    LET c == Scanner_peek(s, 0) IN
    IF c = "\n"
    THEN Scanner_skipWhitespace([s EXCEPT !.line = @ + 1, !.curr = @ + 1])
    ELSE IF c \in {" ", "\r", "\t"}
    THEN Scanner_skipWhitespace([s EXCEPT !.curr = @ + 1])
    ELSE IF c = "/" /\ Scanner_peek(s, 1) = "/"
    THEN \* Skip until the end of the line.
         Scanner_skipWhitespace(
             [s EXCEPT !.curr = AdvanceWhile(s.src, s.curr, {"\n"}, FALSE)])
    ELSE s

\* ScanToken up to its return or up to the loop of the string literal:
\* the scanner, the token returned, and whether the loop was entered.
Scanner_ScanToken(s0) ==
    LET w == Scanner_skipWhitespace(s0)
        s1 == [w EXCEPT !.start = w.curr]
        c == Scanner_peek(s1, 0)
        s == [s1 EXCEPT !.curr = @ + 1]
        eq == [s EXCEPT !.curr = @ + 1]
        int == [s EXCEPT !.curr = AdvanceWhile(s.src, s.curr, Digits, TRUE)]
        frac == [int EXCEPT !.curr =
                    AdvanceWhile(int.src, int.curr + 1, Digits, TRUE)]
        ident == [s EXCEPT !.curr =
                    AdvanceWhile(s.src, s.curr, Letters \cup Digits, TRUE)]
        word == Text(SubSeq(ident.src, ident.start + 1, ident.curr))
        Ret(s2, tk) == [s |-> s2, tk |-> tk, inString |-> FALSE]
    IN IF s1.curr >= Len(s1.src) THEN Ret(s1, Scanner_makeToken(s1, "TEOF"))
       ELSE IF c \in Digits
       THEN IF Scanner_peek(int, 0) = "." /\ Scanner_peek(int, 1) \in Digits
            THEN Ret(frac, Scanner_makeToken(frac, "TNum"))
            ELSE Ret(int, Scanner_makeToken(int, "TNum"))
       ELSE IF c \in Letters
       THEN Ret(ident, Scanner_makeToken(ident,
                IF word \in DOMAIN Keywords THEN Keywords[word] ELSE "TIdent"))
       ELSE IF c \in {"!", "=", "<", ">"} /\ Scanner_peek(s, 0) = "="
       THEN Ret(eq, Scanner_makeToken(eq, Punctuation[c \o "="]))
       ELSE IF c \in DOMAIN Punctuation
       THEN Ret(s, Scanner_makeToken(s, Punctuation[c]))
       ELSE IF c = "\""
       THEN [s |-> s, tk |-> ZeroToken, inString |-> TRUE]
       ELSE Ret(s, Scanner_errorToken(s, "unexpected character"))

\* One round of the loop of the string literal.
Scanner_string(s) ==
    LET c == Scanner_peek(s, 0)
        closed == [s EXCEPT !.curr = @ + 1]
    IN IF c = "\n"
       THEN [s |-> [s EXCEPT !.line = @ + 1], tk |-> ZeroToken,
             inString |-> TRUE]
       ELSE IF c = "\""
       THEN \* Consume the closing quote.
            [s |-> closed, tk |-> Scanner_makeToken(closed, "TStr"),
             inString |-> FALSE]
       ELSE IF s.curr >= Len(s.src)
       THEN [s |-> s, tk |-> Scanner_errorToken(s, "unterminated string"),
             inString |-> FALSE]
       ELSE [s |-> [s EXCEPT !.curr = @ + 1], tk |-> ZeroToken,
             inString |-> TRUE]

(***************************************************************************)
(* Opcodes (chunk.go, in the order of the OpCode enumeration) and limits.  *)
(***************************************************************************)
OpReturn == 0
OpConst == 1
OpNil == 2
OpTrue == 3
OpFalse == 4
OpPop == 5
OpGetLocal == 6
OpSetLocal == 7
OpGetGlobal == 8
OpDefGlobal == 9
OpSetGlobal == 10
OpGetUpval == 11
OpSetUpval == 12
OpGetProp == 13
OpSetProp == 14
OpEqual == 15
OpGreater == 16
OpLess == 17
OpNot == 18
OpNeg == 19
OpAdd == 20
OpSub == 21
OpMul == 22
OpDiv == 23
OpPrint == 24
OpJump == 25
OpJumpUnless == 26
OpLoop == 27
OpCall == 28
OpInvoke == 29
OpClos == 30
OpCloseUpval == 31
OpClass == 32
OpMethod == 33

MaxUint8 == 255
MaxUint16 == 65535

\* const Uninit = -1; also stands for a nil *int.
Uninit == -1

(***************************************************************************)
(* Chunk (chunk.go)                                                        *)
(***************************************************************************)
NewChunk == [code |-> <<>>, lines |-> <<>>, consts |-> <<>>]

\* A Write that records the line twice.
Write_twoLines(c, byte, line) ==
    [c EXCEPT !.code = Append(@, byte), !.lines = Append(Append(@, line), line)]

Write(c, byte, line) ==
    [c EXCEPT !.code = Append(@, byte), !.lines = Append(@, line)]

AddConst(c, const) == [c EXCEPT !.consts = Append(@, const)]

(***************************************************************************)
(* Compiler frames and the Parser (compiler.go).                           *)
(*                                                                         *)
(* The Parser is a record p:                                               *)
(*   scanner, prev, curr, errors, panicMode   as in the source,            *)
(*   comps       the chain of Compilers, innermost last (p.Compiler is the *)
(*               last one, its enclosing the one before),                  *)
(*   classes     the length of the ClassCompiler chain,                    *)
(*   funs        the function prototypes allocated so far (the address of  *)
(*               a *VFun is its index),                                    *)
(*   nstr        the number of *VStr allocated so far,                     *)
(*   crash       "" or what ended compilation without a return: the        *)
(*               message of a Go panic, or Endless when a call of          *)
(*               ScanToken does not return.                                *)
(* Every operation is a no-op once crash is set.                           *)
(***************************************************************************)
NewVFun == [name |-> "", arity |-> 0, upvalCount |-> 0, chunk |-> NewChunk]

Local(name, depth) == [name |-> name, depth |-> depth, isCaptured |-> FALSE]

Upval(isLocal, idx) == [isLocal |-> isLocal, idx |-> idx]

NewCompiler(funType) ==
    [fun |-> NewVFun,
     funType |-> funType,
     \* Reserve the locals slot 0 for "this".
     locals |-> << IF funType # "FFun"
                   THEN Local(Token("TThis", 0, "this"), 0)
                   ELSE Local(ZeroToken, 0) >>,
     upvals |-> <<>>,
     depth |-> 0,
     loopStart |-> Uninit,
     loopEndHoles |-> <<>>]

NewParser(funs, nstr) ==
    [scanner |-> NewScanner(<<>>),
     comps |-> <<>>,
     classes |-> 0,
     prev |-> ZeroToken,
     curr |-> ZeroToken,
     errors |-> <<>>,
     panicMode |-> FALSE,
     funs |-> funs,
     nstr |-> nstr,
     crash |-> ""]

Crash(p, msg) == IF p.crash # "" THEN p ELSE [p EXCEPT !.crash = msg]

\* The Parser is inside a call of ScanToken that does not return.
Endless == "ScanToken does not return"

\* The current Compiler; a nil p.Compiler has no fields to read.
Cur(p) == Last(p.comps)

SetCur(p, c) == [p EXCEPT !.comps = SetLast(@, c)]

wrapCompiler(p, funType) ==
    IF p.crash # "" THEN p
    ELSE LET res == NewCompiler(funType) IN
         IF funType # "FScript"
         THEN [p EXCEPT !.comps = Append(@, [res EXCEPT !.fun.name = p.prev.Runes]),
                        !.nstr = @ + 1]
         ELSE [p EXCEPT !.comps = Append(@, res)]

unwrapCompiler(p) == IF p.crash # "" THEN p ELSE [p EXCEPT !.comps = Front(@)]

wrapClassCompiler(p) == IF p.crash # "" THEN p ELSE [p EXCEPT !.classes = @ + 1]

unwrapClassCompiler(p) == IF p.crash # "" THEN p ELSE [p EXCEPT !.classes = @ - 1]

\* An addLocal without a limit.
addLocal_unlimited(p, name) ==
    IF p.crash # "" THEN p
    ELSE SetCur(p, [Cur(p) EXCEPT !.locals = Append(@, Local(name, Uninit))])

\* Compiler.addLocal on the current Compiler.
addLocal(p, name) ==
    IF p.crash # "" THEN p
    ELSE IF Len(Cur(p).locals) >= MaxUint8 + 1
    THEN Crash(p, "too many variables in function")
    ELSE SetCur(p, [Cur(p) EXCEPT !.locals = Append(@, Local(name, Uninit))])

\* An addUpval that never reuses an upvalue.
addUpval_noReuse(c, upval) ==
    IF Len(c.upvals) >= MaxUint8
    THEN [c |-> c, idx |-> Uninit,
          crash |-> "too many closure variables in function"]
    ELSE [c |-> [c EXCEPT !.upvals = Append(@, upval),
                          !.fun.upvalCount = @ + 1],
          idx |-> Len(c.upvals), crash |-> ""]

\* Compiler.addUpval on one Compiler c: the Compiler after it, the index,
\* and whether it panicked.
addUpval(c, upval) ==
    LET idx == Index(c.upvals, upval) IN
    IF idx # -1 THEN [c |-> c, idx |-> idx, crash |-> ""]
    ELSE IF Len(c.upvals) >= MaxUint8
    THEN [c |-> c, idx |-> Uninit,
          crash |-> "too many closure variables in function"]
    ELSE [c |-> [c EXCEPT !.upvals = Append(@, upval),
                          !.fun.upvalCount = @ + 1],
          idx |-> Len(c.upvals), crash |-> ""]

(* Error handling *)
ErrorAt(p, tk, reason) ==
    IF p.crash # "" \/ p.panicMode THEN p
    ELSE [p EXCEPT !.panicMode = TRUE,
                   !.errors = Append(@, [Line |-> tk.Line, At |-> tk.Runes,
                                         Reason |-> reason])]

Error(p, reason) == ErrorAt(p, p.prev, reason)

ErrorAtCurr(p, reason) == ErrorAt(p, p.curr, reason)

(* Parsing helpers *)
check(p, ty) == p.curr.Type = ty

checkPrev(p, ty) == p.prev.Type = ty

\* The loop of advance: skip until the first non-TErr token.  r is what
\* p.ScanToken() gives in this round; the loop, and with it Compile, stays
\* in a call that does not return.
RECURSIVE advanceScan(_)
advance_scanned(p, r) ==
    IF r.loops THEN Crash(p, Endless)
    ELSE IF r.tk.Type # "TErr" THEN [p EXCEPT !.scanner = r.s, !.curr = r.tk]
    ELSE advanceScan(Error([p EXCEPT !.scanner = r.s, !.curr = r.tk],
                           r.tk.Runes))

advanceScan(p) == advance_scanned(p, ScanToken(p.scanner))

advance(p) ==
    IF p.crash # "" THEN p ELSE advanceScan([p EXCEPT !.prev = p.curr])

\* match: advance if the current token has the given type.  The outcome
\* (matched) is check(p, ty) on the Parser before the call.
match(p, ty) == IF ~check(p, ty) THEN p ELSE advance(p)

\* consume: the Parser after it; the token returned is p.curr before the
\* call, or nil when check(p, ty) fails.
consume(p, ty, errorMsg) ==
    IF ~check(p, ty) THEN ErrorAtCurr(p, errorMsg) ELSE advance(p)

(* Compiling helpers *)
currChunk(p) == Cur(p).fun.chunk

RECURSIVE emitBytes(_, _)
emitBytes(p, bs) ==
    IF p.crash # "" \/ bs = <<>> THEN p
    ELSE emitBytes(SetCur(p, [Cur(p) EXCEPT
                        !.fun.chunk = Write(@, Head(bs), p.prev.Line)]),
                   Tail(bs))

\* mkConst: the Parser after it; the byte returned is the length of the
\* constant pool before the call.
mkConst(p, val) ==
    IF p.crash # "" THEN p
    ELSE IF Len(currChunk(p).consts) > MaxUint8
    THEN Crash(SetCur(p, [Cur(p) EXCEPT !.fun.chunk = AddConst(@, val)]),
               "too many consts in one chunk")
    ELSE SetCur(p, [Cur(p) EXCEPT !.fun.chunk = AddConst(@, val)])

ConstIdx(p) == Len(currChunk(p).consts)

\* emitConst(val): OpConst and the index mkConst returns.
emitConst(p, val) == emitBytes(mkConst(p, val), <<OpConst, ConstIdx(p)>>)

\* NewVStr allocates a *VStr: the Parser after the allocation and the value.
NewVStrP(p, chars) == [p EXCEPT !.nstr = @ + 1]

\* identConst(name): mkConst(NewVStr(name.String())).
identConst(p, name) ==
    IF p.crash # "" THEN p
    ELSE mkConst(NewVStrP(p, name.Runes), VStr(p.nstr + 1, name.Runes))

\* An emitReturn that returns nil from every function, init included.
emitReturn_alwaysNil(p) ==
    IF p.crash # "" THEN p
    ELSE emitBytes(p, <<OpNil, OpReturn>>)

emitReturn(p) ==
    IF p.crash # "" THEN p
    ELSE IF Cur(p).funType = "FInit"
    THEN emitBytes(p, <<OpGetLocal, 0, OpReturn>>)
    ELSE emitBytes(p, <<OpNil, OpReturn>>)

\* endCompiler: emit the return, allocate the finished prototype in funs and
\* leave the Compiler.  The function returned is the last of funs, the
\* upvalue list returned is that of the Compiler left.
endCompiler(p) ==
    IF p.crash # "" THEN p
    ELSE LET p1 == emitReturn(p) IN
         unwrapCompiler([p1 EXCEPT !.funs = Append(@, Cur(p1).fun)])

(* Variables, scopes and loops *)
markInit(p) ==
    IF p.crash # "" \/ Cur(p).depth = 0 THEN p
    ELSE SetCur(p, [Cur(p) EXCEPT !.locals[Len(Cur(p).locals)].depth = Cur(p).depth])

\* defVar(global): global is Uninit for a nil *byte.
defVar(p, global) ==
    IF p.crash # "" THEN p
    ELSE IF global = Uninit \/ Cur(p).depth > 0
    THEN markInit(p)
    ELSE emitBytes(p, <<OpDefGlobal, global>>)

\* A declVar that compares the name with the local declared last only.
declVarClash_lastOnly(locals, depth, name, i) ==
    /\ i >= 1
    /\ ~(locals[i].depth # Uninit /\ locals[i].depth < depth)
    /\ TokenEq(name, locals[i].name)

\* The loop of declVar from local i downwards: whether a local of the same
\* name is met before a local of a shallower, initialised depth.
declVarClash(locals, depth, name, i) ==
    \E k \in 1..i :
        /\ TokenEq(name, locals[k].name)
        /\ \A j \in k..i :
               ~(locals[j].depth # Uninit /\ locals[j].depth < depth)

declVar(p) ==
    IF p.crash # "" \/ Cur(p).depth = 0 THEN p
    ELSE addLocal(IF declVarClash(Cur(p).locals, Cur(p).depth, p.prev,
                                  Len(Cur(p).locals))
                  THEN Error(p, "already a variable with this name in this scope")
                  ELSE p,
                  p.prev)

\* parseVar: the Parser after it and the *byte it returns (Uninit for nil).
parseVar(p, errorMsg) ==
    IF p.crash # "" THEN [p |-> p, global |-> Uninit]
    ELSE IF ~check(p, "TIdent")
    THEN [p |-> advance(consume(p, "TIdent", errorMsg)), global |-> Uninit]
    ELSE LET target == p.curr
             p1 == declVar(consume(p, "TIdent", errorMsg))
         IN IF p1.crash # "" \/ Cur(p1).depth > 0
            THEN [p |-> p1, global |-> Uninit]
            ELSE [p |-> identConst(p1, target), global |-> ConstIdx(p1)]

beginLoop(p) ==
    IF p.crash # "" THEN p
    ELSE SetCur(p, [Cur(p) EXCEPT !.loopStart = Len(currChunk(p).code)])

emitJump(p, inst) == emitBytes(p, <<inst, 255, 255>>)

\* The offset emitJump returns for a jump emitted from Parser p.
JumpOffset(p) == Len(currChunk(p).code) + 1

\* A patchJump that counts the two operand bytes into the distance.
patchJump_fromOperand(p, offset) ==
    IF p.crash # "" THEN p
    ELSE LET jump == Len(currChunk(p).code) - offset IN
         IF jump > MaxUint16 THEN Crash(p, "too much code to jump over")
         ELSE SetCur(p, [Cur(p) EXCEPT
                 !.fun.chunk.code[offset + 1] = (jump \div 256) % 256,
                 !.fun.chunk.code[offset + 2] = jump % 256])

patchJump(p, offset) ==
    IF p.crash # "" THEN p
    ELSE LET jump == Len(currChunk(p).code) - (offset + 2) IN
         IF jump > MaxUint16 THEN Crash(p, "too much code to jump over")
         ELSE SetCur(p, [Cur(p) EXCEPT
                 !.fun.chunk.code[offset + 1] = (jump \div 256) % 256,
                 !.fun.chunk.code[offset + 2] = jump % 256])

emitLoop(p, start) ==
    IF p.crash # "" THEN p
    ELSE LET p1 == emitBytes(p, <<OpLoop>>)
             backJump == Len(currChunk(p1).code) + 2 - start
         IN IF backJump > MaxUint16 THEN Crash(p1, "loop body too large")
            ELSE emitBytes(p1, <<(backJump \div 256) % 256, backJump % 256>>)

\* p.emitLoop(*p.loopStart): dereferencing a nil loopStart panics.
emitLoopToStart(p) ==
    IF p.crash # "" THEN p
    ELSE IF Cur(p).loopStart = Uninit
    THEN Crash(p, "nil pointer dereference")
    ELSE emitLoop(p, Cur(p).loopStart)

RECURSIVE patchHoles(_, _)
patchHoles(p, holes) ==
    IF p.crash # "" \/ holes = <<>> THEN p
    ELSE patchHoles(patchJump(p, Head(holes)), Tail(holes))

endLoop(p) ==
    LET p1 == patchHoles(p, Cur(p).loopEndHoles) IN
    IF p1.crash # "" THEN p1
    ELSE SetCur(p1, [Cur(p1) EXCEPT !.loopStart = Uninit, !.loopEndHoles = <<>>])

\* An isInLoop that holds everywhere.
isInLoop_everywhere(c) == TRUE

isInLoop(c) == c.loopStart # Uninit

beginScope(p) ==
    IF p.crash # "" THEN p ELSE SetCur(p, [Cur(p) EXCEPT !.depth = @ + 1])

\* An end of scope that pops every local, captured or not.
RECURSIVE endScopePop_popOnly(_)
endScopePop_popOnly(p) ==
    IF p.crash # "" \/ Len(Cur(p).locals) = 0 THEN p
    ELSE LET last == Last(Cur(p).locals) IN
         IF last.depth <= Cur(p).depth THEN p
         ELSE LET p1 == emitBytes(p, <<OpPop>>)
              IN endScopePop_popOnly(SetCur(p1, [Cur(p1) EXCEPT !.locals = Front(@)]))

\* The loop of endScope.
RECURSIVE endScopePop(_)
endScopePop(p) ==
    IF p.crash # "" \/ Len(Cur(p).locals) = 0 THEN p
    ELSE LET last == Last(Cur(p).locals) IN
         IF last.depth <= Cur(p).depth THEN p
         ELSE LET p1 == IF last.isCaptured
                        THEN emitBytes(p, <<OpCloseUpval>>)
                        ELSE emitBytes(p, <<OpPop>>)
              IN endScopePop(SetCur(p1, [Cur(p1) EXCEPT !.locals = Front(@)]))

endScope(p) ==
    IF p.crash # "" THEN p
    ELSE endScopePop(SetCur(p, [Cur(p) EXCEPT !.depth = @ - 1]))

\* Compiler.resolveLocal from local i downwards.
RECURSIVE resolveLocalFrom(_, _, _)
resolveLocalFrom(c, name, i) ==
    IF i < 1 THEN [slot |-> Uninit, ok |-> TRUE]
    ELSE IF TokenEq(name, c.locals[i].name)
    THEN [slot |-> i - 1, ok |-> c.locals[i].depth # Uninit]
    ELSE resolveLocalFrom(c, name, i - 1)

Compiler_resolveLocal(c, name) == resolveLocalFrom(c, name, Len(c.locals))

\* A resolveLocal that accepts a local that is not initialized yet.
resolveLocal_anyDepth(p, name) == p

\* Parser.resolveLocal: the slot is Compiler_resolveLocal(Cur(p), name).slot.
resolveLocal(p, name) ==
    IF p.crash # "" THEN p
    ELSE IF ~Compiler_resolveLocal(Cur(p), name).ok
    THEN Error(p, "can't read local variable in its own initializer")
    ELSE p

\* Compiler.resolveUpval of the Compiler at position level of the chain:
\* the chain after it, the slot and whether it panicked.
RECURSIVE resolveUpval(_, _, _)
resolveUpval(comps, level, name) ==
    IF level <= 1 THEN [comps |-> comps, slot |-> Uninit, crash |-> ""]
    ELSE LET r == Compiler_resolveLocal(comps[level - 1], name) IN
         IF r.ok /\ r.slot # Uninit
         THEN LET comps1 == [comps EXCEPT
                                ![level - 1].locals[r.slot + 1].isCaptured = TRUE]
                  a == addUpval(comps1[level], Upval(TRUE, r.slot))
              IN [comps |-> [comps1 EXCEPT ![level] = a.c],
                  slot |-> a.idx, crash |-> a.crash]
         ELSE LET u == resolveUpval(comps, level - 1, name) IN
              IF u.crash # "" THEN u
              ELSE IF u.slot # Uninit
              THEN LET a == addUpval(u.comps[level], Upval(FALSE, u.slot))
                   IN [comps |-> [u.comps EXCEPT ![level] = a.c],
                       slot |-> a.idx, crash |-> a.crash]
              ELSE [comps |-> u.comps, slot |-> Uninit, crash |-> ""]

\* The loop of sync.
RECURSIVE syncLoop(_)
syncLoop(p) ==
    IF p.crash # "" \/ check(p, "TEOF") \/ checkPrev(p, "TSemi") THEN p
    ELSE IF p.curr.Type \in {"TClass", "TFun", "TVar", "TFor", "TIf",
                             "TWhile", "TPrint", "TReturn"}
    THEN p
    ELSE syncLoop(advance(p))

sync(p) ==
    IF p.crash # "" THEN p ELSE syncLoop([p EXCEPT !.panicMode = FALSE])

(* Precedence *)
PrecNone == 0
PrecAssign == 1
PrecOr == 2
PrecAnd == 3
PrecEqual == 4
PrecComp == 5
PrecTerm == 6
PrecFactor == 7
PrecUnary == 8
PrecCall == 9
PrecPrimary == 10

ParseRule(prefix, infix, prec) == [Prefix |-> prefix, Infix |-> infix, Prec |-> prec]

\* parseRules[ty]; "" is a nil ParseFn.  The token types without an entry
\* have the zero ParseRule.
parseRules(ty) ==
    CASE ty = "TLParen" -> ParseRule("grouping", "call", PrecCall)
      [] ty = "TDot" -> ParseRule("", "dot", PrecCall)
      [] ty = "TMinus" -> ParseRule("unary", "binary", PrecTerm)
      [] ty = "TPlus" -> ParseRule("", "binary", PrecTerm)
      [] ty \in {"TSlash", "TStar"} -> ParseRule("", "binary", PrecFactor)
      [] ty = "TBang" -> ParseRule("unary", "", PrecNone)
      [] ty \in {"TBangEqual", "TEqualEqual"} -> ParseRule("", "binary", PrecEqual)
      [] ty \in {"TGreater", "TGreaterEqual", "TLess", "TLessEqual"} ->
            ParseRule("", "binary", PrecComp)
      [] ty = "TIdent" -> ParseRule("var_", "", PrecNone)
      [] ty = "TStr" -> ParseRule("str", "", PrecNone)
      [] ty = "TNum" -> ParseRule("num", "", PrecNone)
      [] ty = "TAnd" -> ParseRule("", "and", PrecAnd)
      [] ty \in {"TFalse", "TNil", "TTrue"} -> ParseRule("lit", "", PrecNone)
      [] ty = "TOr" -> ParseRule("", "or", PrecOr)
      [] ty = "TThis" -> ParseRule("this", "", PrecNone)
      [] OTHER -> ParseRule("", "", PrecNone)

RECURSIVE parsePrec(_, _), parseInfixLoop(_, _, _), applyPrefix(_, _, _),
          applyInfix(_, _, _), argListLoop(_, _)

expr(p) == parsePrec(p, PrecAssign)

\* The error of ParseFloat joins p.errors as it is, in panic mode too; a
\* nil error adds nothing.
num_parsed(p, parsed) ==
    emitConst(IF parsed.err = "" THEN p
              ELSE [p EXCEPT !.errors = Append(@, [Line |-> 0, At |-> p.prev.Runes,
                                                  Reason |-> parsed.err])],
              parsed.val)

num(p, canAssign) ==
    IF p.crash # "" THEN p ELSE num_parsed(p, ParseFloat(p.prev.Runes))

grouping(p, canAssign) == consume(expr(p), "TRParen", "expect ')' after expression")

lit(p, canAssign) ==
    CASE p.prev.Type = "TFalse" -> emitBytes(p, <<OpFalse>>)
      [] p.prev.Type = "TNil" -> emitBytes(p, <<OpNil>>)
      [] p.prev.Type = "TTrue" -> emitBytes(p, <<OpTrue>>)
      [] OTHER -> Crash(p, "internal error: entered unreachable code")

\* The runes inside the quotes: runes[1 : len(runes)-1].
str(p, canAssign) ==
    LET unquoted == SubSeq(p.prev.Runes, 2, Len(p.prev.Runes) - 1) IN
    IF p.crash # "" THEN p
    ELSE emitConst(NewVStrP(p, unquoted), VStr(p.nstr + 1, unquoted))

\* What namedVar resolves a name to: the Parser after the resolution, the
\* operand and the get and set instructions.
Resolved(p, arg, get, set) == [p |-> p, arg |-> arg, get |-> get, set |-> set]

\* A namedVar that assigns whenever an = follows the name.
namedVar_emit_anyPrec(r, canAssign) ==
    IF r.p.crash # "" THEN r.p
    ELSE IF check(r.p, "TEqual")
    THEN emitBytes(expr(match(r.p, "TEqual")), <<r.set, r.arg>>)
    ELSE emitBytes(r.p, <<r.get, r.arg>>)

\* The end of namedVar, once the variable is resolved to r.
namedVar_emit(r, canAssign) ==
    IF r.p.crash # "" THEN r.p
    ELSE IF canAssign /\ check(r.p, "TEqual")
    THEN emitBytes(expr(match(r.p, "TEqual")), <<r.set, r.arg>>)
    ELSE emitBytes(r.p, <<r.get, r.arg>>)

namedVar(p, name, canAssign) ==
    IF p.crash # "" THEN p
    ELSE LET slot == Compiler_resolveLocal(Cur(p), name).slot
             p1 == resolveLocal(p, name)
             u == resolveUpval(p1.comps, Len(p1.comps), name)
             p2 == [p1 EXCEPT !.comps = u.comps]
         IN namedVar_emit(
                IF slot > MaxUint8
                THEN Resolved(Crash(p1, "scope depth limit exceeded"), Uninit,
                              OpGetLocal, OpSetLocal)
                ELSE IF slot # Uninit
                THEN \* name is a local variable.
                     Resolved(p1, slot, OpGetLocal, OpSetLocal)
                ELSE IF u.crash # ""
                THEN Resolved(Crash(p2, u.crash), Uninit, OpGetUpval, OpSetUpval)
                ELSE IF u.slot # Uninit
                THEN \* name is captured by the current closure.
                     Resolved(p2, u.slot, OpGetUpval, OpSetUpval)
                ELSE \* name is a global variable.
                     Resolved(identConst(p2, name), ConstIdx(p2),
                              OpGetGlobal, OpSetGlobal),
                canAssign)

var_(p, canAssign) == namedVar(p, p.prev, canAssign)

this(p, canAssign) ==
    var_(IF p.classes = 0 THEN Error(p, "can't use 'this' outside of a class") ELSE p,
         FALSE)

unary(p, canAssign) ==
    LET op == p.prev.Type
        p1 == parsePrec(p, PrecUnary)
    IN CASE op = "TBang" -> emitBytes(p1, <<OpNot>>)
         [] op = "TMinus" -> emitBytes(p1, <<OpNeg>>)
         [] OTHER -> Crash(p1, "internal error: entered unreachable code")

\* A binary that parses its right operand at the level of the operator.
binary_rightAssoc(p, canAssign) ==
    LET op == p.prev.Type
        rule == parseRules(op)
        p1 == parsePrec(p, rule.Prec)
    IN CASE op = "TBangEqual" -> emitBytes(p1, <<OpEqual, OpNot>>)
         [] op = "TEqualEqual" -> emitBytes(p1, <<OpEqual>>)
         [] op = "TGreater" -> emitBytes(p1, <<OpGreater>>)
         [] op = "TGreaterEqual" -> emitBytes(p1, <<OpLess, OpNot>>)
         [] op = "TLess" -> emitBytes(p1, <<OpLess>>)
         [] op = "TLessEqual" -> emitBytes(p1, <<OpGreater, OpNot>>)
         [] op = "TPlus" -> emitBytes(p1, <<OpAdd>>)
         [] op = "TMinus" -> emitBytes(p1, <<OpSub>>)
         [] op = "TStar" -> emitBytes(p1, <<OpMul>>)
         [] op = "TSlash" -> emitBytes(p1, <<OpDiv>>)
         [] OTHER -> Crash(p1, "internal error: entered unreachable code")

binary(p, canAssign) ==
    LET op == p.prev.Type
        rule == parseRules(op)
        p1 == parsePrec(p, rule.Prec + 1)
    IN CASE op = "TBangEqual" -> emitBytes(p1, <<OpEqual, OpNot>>)
         [] op = "TEqualEqual" -> emitBytes(p1, <<OpEqual>>)
         [] op = "TGreater" -> emitBytes(p1, <<OpGreater>>)
         [] op = "TGreaterEqual" -> emitBytes(p1, <<OpLess, OpNot>>)
         [] op = "TLess" -> emitBytes(p1, <<OpLess>>)
         [] op = "TLessEqual" -> emitBytes(p1, <<OpGreater, OpNot>>)
         [] op = "TPlus" -> emitBytes(p1, <<OpAdd>>)
         [] op = "TMinus" -> emitBytes(p1, <<OpSub>>)
         [] op = "TStar" -> emitBytes(p1, <<OpMul>>)
         [] op = "TSlash" -> emitBytes(p1, <<OpDiv>>)
         [] OTHER -> Crash(p1, "internal error: entered unreachable code")

and(p, canAssign) ==
    LET endJump == JumpOffset(p)
        p1 == emitBytes(emitJump(p, OpJumpUnless), <<OpPop>>)
    IN patchJump(parsePrec(p1, PrecAnd), endJump)

or(p, canAssign) ==
    LET elseJump == JumpOffset(p)
        p1 == emitJump(p, OpJumpUnless)
        endJump == JumpOffset(p1)
        p2 == emitBytes(patchJump(emitJump(p1, OpJump), elseJump), <<OpPop>>)
    IN patchJump(parsePrec(p2, PrecOr), endJump)

\* The loop of argList: the Parser after it and the argument count.
argListLoop(p, argCount) ==
    IF p.crash # "" THEN [p |-> p, argCount |-> argCount]
    ELSE LET p1 == expr(p)
             n == argCount + 1
             p2 == IF n >= MaxUint8 THEN Error(p1, "too many arguments") ELSE p1
         IN IF p2.crash # "" \/ ~check(p2, "TComma")
            THEN [p |-> p2, argCount |-> n]
            ELSE argListLoop(match(p2, "TComma"), n)

argList(p) ==
    LET r == IF ~check(p, "TRParen") THEN argListLoop(p, 0)
             ELSE [p |-> p, argCount |-> 0]
    IN [p |-> consume(r.p, "TRParen", "expect ')' after arguments"),
        argCount |-> r.argCount]

call(p, canAssign) ==
    LET r == argList(p) IN emitBytes(r.p, <<OpCall, r.argCount % 256>>)

dot(p, canAssign) ==
    IF p.crash # "" THEN p
    ELSE IF ~check(p, "TIdent")
    THEN \* consume returns nil and identConst dereferences it.
         Crash(consume(p, "TIdent", "expect property name after '.'"),
               "nil pointer dereference")
    ELSE LET name == p.curr
             p1 == consume(p, "TIdent", "expect property name after '.'")
             nameConst == ConstIdx(p1)
             p2 == identConst(p1, name)
         IN IF p2.crash # "" THEN p2
            ELSE IF canAssign /\ check(p2, "TEqual")
            THEN emitBytes(expr(match(p2, "TEqual")), <<OpSetProp, nameConst>>)
            ELSE IF check(p2, "TLParen")
            THEN \* OpInvoke superinstruction optimization.
                 LET r == argList(match(p2, "TLParen")) IN
                 emitBytes(r.p, <<OpInvoke, nameConst, r.argCount % 256>>)
            ELSE emitBytes(p2, <<OpGetProp, nameConst>>)

applyPrefix(fn, p, canAssign) ==
    CASE fn = "grouping" -> grouping(p, canAssign)
      [] fn = "unary" -> unary(p, canAssign)
      [] fn = "var_" -> var_(p, canAssign)
      [] fn = "str" -> str(p, canAssign)
      [] fn = "num" -> num(p, canAssign)
      [] fn = "lit" -> lit(p, canAssign)
      [] fn = "this" -> this(p, canAssign)

applyInfix(fn, p, canAssign) ==
    CASE fn = "call" -> call(p, canAssign)
      [] fn = "dot" -> dot(p, canAssign)
      [] fn = "binary" -> binary(p, canAssign)
      [] fn = "and" -> and(p, canAssign)
      [] fn = "or" -> or(p, canAssign)

\* The loop of parsePrec: parse the RHS while rule.Prec >= prec.
parseInfixLoop(p, prec, canAssign) ==
    IF p.crash # "" THEN p
    ELSE LET rule == parseRules(p.curr.Type) IN
         IF rule.Prec < prec THEN p
         ELSE IF rule.Infix = ""
         THEN Crash(advance(p), "internal error: entered unreachable code")
         ELSE parseInfixLoop(applyInfix(rule.Infix, advance(p), canAssign),
                             prec, canAssign)

\* The end of parsePrec, after the LHS and the RHS.
parsePrec_end(p, canAssign) ==
    IF p.crash = "" /\ canAssign /\ check(p, "TEqual")
    THEN advance(Error(match(p, "TEqual"), "invalid assignment target"))
    ELSE p

parsePrec(p, prec) ==
    IF p.crash # "" THEN p
    ELSE LET p1 == advance(p)
             prefix == parseRules(p1.prev.Type).Prefix
             canAssign == prec <= PrecAssign
         IN IF prefix = "" THEN Error(p1, "expect expression")
            ELSE parsePrec_end(parseInfixLoop(applyPrefix(prefix, p1, canAssign),
                                              prec, canAssign),
                               canAssign)

(* Statements and declarations *)
RECURSIVE decl(_), stmt(_), blockLoop(_), fun_(_, _), paramLoop(_), methodLoop(_)

exprStmt(p) ==
    emitBytes(consume(expr(p), "TSemi", "expect ';' after value"), <<OpPop>>)

printStmt(p) ==
    emitBytes(consume(expr(p), "TSemi", "expect ';' after value"), <<OpPrint>>)

blockLoop(p) ==
    IF p.crash # "" \/ check(p, "TRBrace") \/ check(p, "TEOF") THEN p
    ELSE blockLoop(decl(p))

block(p) == consume(blockLoop(p), "TRBrace", "expect '}' after block")

\* ifStmt, after the condition.
ifStmt_then(p) ==
    LET thenJump == JumpOffset(p)
        p1 == stmt(emitBytes(emitJump(p, OpJumpUnless), <<OpPop>>))
        elseJump == JumpOffset(p1)
        p2 == emitBytes(patchJump(emitJump(p1, OpJump), thenJump), <<OpPop>>)
    IN patchJump(IF check(p2, "TElse") THEN stmt(match(p2, "TElse")) ELSE p2,
                 elseJump)

ifStmt(p) ==
    ifStmt_then(consume(expr(consume(p, "TLParen", "expect '(' after 'if'")),
                        "TRParen", "expect ')' after condition"))

\* whileStmt, after the condition.
whileStmt_body(p) ==
    LET exitJump == JumpOffset(p)
        p1 == stmt(emitBytes(emitJump(p, OpJumpUnless), <<OpPop>>))
    IN endLoop(emitBytes(patchJump(emitLoopToStart(p1), exitJump), <<OpPop>>))

whileStmt(p) ==
    whileStmt_body(consume(expr(consume(beginLoop(p), "TLParen",
                                        "expect '(' after 'while'")),
                           "TRParen", "expect ')' after condition"))

\* varDecl, after the initializer; r is the outcome of parseVar.
varDecl_def(p, r) ==
    IF checkPrev(r.p, "TIdent") THEN defVar(p, r.global) ELSE p

varDecl(p) ==
    LET r == parseVar(p, "expect variable name") IN
    varDecl_def(consume(IF check(r.p, "TEqual") THEN expr(match(r.p, "TEqual"))
                        ELSE emitBytes(r.p, <<OpNil>>),
                        "TSemi", "expect ';' after variable declaration"),
                r)

\* The incr clause of forStmt, entered when the clauses do not end at once.
forIncr(p, start) ==
    patchJump(emitLoop(consume(emitBytes(expr(beginLoop(emitJump(p, OpJump))),
                                         <<OpPop>>),
                               "TRParen", "expect ')' after for clauses"),
                       start),
              JumpOffset(p))

\* forStmt, after the jump back to the start: the exit of the loop.
forStmt_exit(p, hasCond, exitJump) ==
    IF hasCond THEN emitBytes(patchJump(p, exitJump), <<OpPop>>) ELSE p

\* forStmt, after the cond clause: the incr clause and the body.
forStmt_incr(p, start, hasCond) ==
    LET exitJump == JumpOffset(p)
        p1 == IF hasCond THEN emitBytes(emitJump(p, OpJumpUnless), <<OpPop>>)
              ELSE p
    IN endScope(endLoop(
           forStmt_exit(emitLoopToStart(stmt(IF ~check(p1, "TRParen")
                                             THEN forIncr(p1, start)
                                             ELSE match(p1, "TRParen"))),
                        hasCond, exitJump)))

\* forStmt, after the init clause: the cond clause.
forStmt_cond(p) ==
    forStmt_incr(IF ~check(p, "TSemi")
                 THEN consume(expr(beginLoop(p)), "TSemi",
                              "expect ';' after loop condition")
                 ELSE match(beginLoop(p), "TSemi"),
                 Len(currChunk(p).code), ~check(p, "TSemi"))

forStmt(p) ==
    LET p1 == consume(beginScope(p), "TLParen", "expect '(' after 'for'") IN
    forStmt_cond(CASE check(p1, "TSemi") -> match(p1, "TSemi")
                   [] check(p1, "TVar") -> varDecl(match(p1, "TVar"))
                   [] OTHER -> exprStmt(p1))

breakStmt(p) ==
    LET p1 == consume(p, "TSemi", "expect ';' after 'break'")
        p2 == emitJump(p1, OpJump)
    IN IF p2.crash # "" THEN p2
       ELSE SetCur(p2, [Cur(p2) EXCEPT !.loopEndHoles = Append(@, JumpOffset(p1))])

continueStmt(p) ==
    emitLoopToStart(consume(p, "TSemi", "expect ';' after 'continue'"))

returnStmt(p) ==
    IF p.crash # "" THEN p
    ELSE IF check(p, "TSemi") THEN emitReturn(match(p, "TSemi"))
    ELSE IF Cur(p).funType = "FInit"
    THEN Error(p, "can't return a value from an initializer")
    ELSE emitBytes(consume(expr(p), "TSemi", "expect ';' after return value"),
                   <<OpReturn>>)

stmt(p) ==
    IF p.crash # "" THEN p
    ELSE CASE check(p, "TBreak") ->
                IF ~isInLoop(Cur(p))
                THEN Error(match(p, "TBreak"), "expect 'break' in a loop")
                ELSE breakStmt(match(p, "TBreak"))
           [] check(p, "TContinue") ->
                IF ~isInLoop(Cur(p))
                THEN Error(match(p, "TContinue"), "expect 'continue' in a loop")
                ELSE continueStmt(match(p, "TContinue"))
           [] check(p, "TPrint") -> printStmt(match(p, "TPrint"))
           [] check(p, "TFor") -> forStmt(match(p, "TFor"))
           [] check(p, "TIf") -> ifStmt(match(p, "TIf"))
           [] check(p, "TReturn") ->
                IF Cur(p).funType = "FScript"
                THEN Error(match(p, "TReturn"), "can't return from top-level code")
                ELSE returnStmt(match(p, "TReturn"))
           [] check(p, "TWhile") -> whileStmt(match(p, "TWhile"))
           [] check(p, "TLBrace") -> endScope(block(beginScope(match(p, "TLBrace"))))
           [] OTHER -> exprStmt(p)

\* The parameter loop of fun_.
paramLoop(p) ==
    IF p.crash # "" THEN p
    ELSE LET p1 == SetCur(p, [Cur(p) EXCEPT !.fun.arity = @ + 1])
             r == parseVar(IF Cur(p1).fun.arity > MaxUint8
                           THEN ErrorAtCurr(p1, "too many parameters")
                           ELSE p1,
                           "expect parameter name")
             p2 == defVar(r.p, r.global)
         IN IF p2.crash # "" \/ ~check(p2, "TComma") THEN p2
            ELSE paramLoop(match(p2, "TComma"))

\* The OpClos operands of fun_: (isLocal, idx) for each upvalue.
RECURSIVE upvalBytes(_)
upvalBytes(upvals) ==
    IF upvals = <<>> THEN <<>>
    ELSE << IF Head(upvals).isLocal THEN 1 ELSE 0, Head(upvals).idx % 256 >>
         \o upvalBytes(Tail(upvals))

\* fun_, after the body: endCompiler leaves the function as the last of funs,
\* and OpClos is followed by the upvalue list of the Compiler left.
fun_end(p) ==
    LET p1 == endCompiler(p) IN
    emitBytes(emitBytes(mkConst(p1, VFun(Len(p1.funs))),
                        << OpClos, IF p1.crash # "" THEN 0 ELSE ConstIdx(p1) >>),
              upvalBytes(Cur(p).upvals))

fun_(p, ty) ==
    LET p1 == consume(beginScope(wrapCompiler(p, ty)), "TLParen",
                      "expect '(' after function name")
    IN fun_end(block(consume(consume(IF ~check(p1, "TRParen") THEN paramLoop(p1)
                                     ELSE p1,
                                     "TRParen", "expect ')' after parameters"),
                             "TLBrace", "expect '{' before function body")))

\* funDecl, after the function is compiled; r is the outcome of parseVar.
funDecl_def(p, r) ==
    IF checkPrev(r.p, "TIdent") THEN defVar(p, r.global) ELSE p

funDecl(p) ==
    LET r == parseVar(p, "expect function name") IN
    funDecl_def(fun_(IF checkPrev(r.p, "TIdent") THEN markInit(r.p) ELSE r.p,
                     "FFun"),
                r)

\* method, after the function is compiled.
method_emit(p, name) ==
    emitBytes(identConst(p, name),
              << OpMethod, IF p.crash # "" THEN 0 ELSE ConstIdx(p) >>)

method(p) ==
    IF p.crash # "" THEN p
    ELSE IF ~check(p, "TIdent")
    THEN \* consume returns nil and name.Eq dereferences it.
         Crash(consume(p, "TIdent", "expect method name"), "nil pointer dereference")
    ELSE method_emit(fun_(consume(p, "TIdent", "expect method name"),
                          IF TokenEq(p.curr, Token("TIdent", 0, "init"))
                          THEN "FInit" ELSE "FMethod"),
                     p.curr)

methodLoop(p) ==
    IF p.crash # "" \/ check(p, "TRBrace") \/ check(p, "TEOF") THEN p
    ELSE methodLoop(method(p))

classDecl(p) ==
    IF p.crash # "" THEN p
    ELSE IF ~check(p, "TIdent")
    THEN \* consume returns nil and identConst dereferences it.
         Crash(consume(p, "TIdent", "expect class name"), "nil pointer dereference")
    ELSE LET name == p.curr
             p1 == consume(p, "TIdent", "expect class name")
             nameConst == ConstIdx(p1)
         IN unwrapClassCompiler(
              emitBytes(
                consume(
                  methodLoop(
                    consume(
                      \* Push the class onto the stack for further modifications.
                      namedVar(
                        wrapClassCompiler(
                          defVar(emitBytes(declVar(identConst(p1, name)),
                                           <<OpClass, nameConst>>),
                                 nameConst)),
                        name, FALSE),
                      "TLBrace", "expect '{' before class body")),
                  "TRBrace", "expect '}' after class body"),
                <<OpPop>>))

\* The end of decl: synchronize after an error.
decl_sync(p) == IF p.panicMode THEN sync(p) ELSE p

decl(p) ==
    IF p.crash # "" THEN p
    ELSE decl_sync(CASE check(p, "TClass") -> classDecl(match(p, "TClass"))
                     [] check(p, "TFun") -> funDecl(match(p, "TFun"))
                     [] check(p, "TVar") -> varDecl(match(p, "TVar"))
                     [] OTHER -> stmt(p))

\* The declaration rule of Compile: for !p.match(TEOF) { p.decl() }.
RECURSIVE declsRule(_)
declsRule(p) ==
    IF p.crash # "" THEN p
    ELSE IF check(p, "TEOF") THEN match(p, "TEOF")
    ELSE declsRule(decl(p))

\* compileWithRule: the Parser after it.  The function returned is the last
\* of funs, the error returned is p.errors.ErrorOrNil().
compileWithRule(p, src, rule) ==
    LET p1 == advance([wrapCompiler(p, "FScript")
                          EXCEPT !.scanner = NewScanner(src)])
    IN endCompiler(IF rule = "decls" THEN declsRule(p1) ELSE expr(p1))

\* The expression pass of Compile, with p1 the Parser after the declaration
\* pass and p2 the Parser after the expression pass.
Compile_chained(p1, p2) ==
    [p |-> p2, err |-> IF p2.errors # <<>> THEN "chained" ELSE "",
     declsErr |-> p1.errors]

\* Compile, after the declaration pass.
Compile_decls(p, src, isREPL) ==
    IF p.crash # "" THEN [p |-> p, err |-> "", declsErr |-> <<>>]
    ELSE IF isREPL /\ p.errors # <<>>
    THEN Compile_chained(p, compileWithRule([p EXCEPT !.errors = <<>>], src, "expr"))
    ELSE [p |-> p, err |-> IF p.errors # <<>> THEN "decls" ELSE "",
          declsErr |-> <<>>]

\* Parser.Compile: the Parser after it and the error it returns: "" for nil,
\* "decls" for the errors of the declaration pass, "chained" for the errors
\* of both passes chained.
Compile(p, src, isREPL) ==
    Compile_decls(compileWithRule(p, src, "decls"), src, isREPL)

(***************************************************************************)
(* The VM (vm.go).                                                         *)
(*                                                                         *)
(* Heap objects live in tables and are addressed by their index.  mem      *)
(* holds every array allocated for values: the backing arrays of vm.stack  *)
(* and the one-element allocations of utils.Ref.  A *Value is a pair       *)
(* [arr, i]: element i (0-based) of array arr.                             *)
(***************************************************************************)
VARIABLES
    stack,       \* vm.stack as a slice header [arr, len]; arr = 0: no array
    mem,         \* the arrays of Values allocated so far
    frames,      \* vm.frames: sequence of CallFrame [clos, ip, base]
    globals,     \* vm.globals: function from names to Values
    openUpvals,  \* vm.openUpvals: address of the head VUpval, 0 for nil
    upvals,      \* the VUpval cells: [val, idx, next]; idx = Uninit for nil
    closures,    \* the VClos objects: [fun, upvals]
    classes,     \* the VClass objects: [name, methods]
    instances,   \* the VInstance objects: [class, fields]
    bounds,      \* the VBoundMethod objects: [this, clos]
    funs,        \* the VFun prototypes compiled so far
    nstr,        \* number of *VStr allocated so far
    printed,     \* what OpPrint wrote to standard output
    phase,       \* "idle": no Interpret call is active; "running": inside
                 \* run; "crashed": a Go panic ended the process;
                 \* "scanning": inside a ScanToken that does not return
    result,      \* what the last Interpret call returned: [val, err, line]
    session,     \* the input: which session of Sessions is being played
    lineNo,      \* number of lines of the session passed to Interpret
    steps,       \* instructions executed by the current Interpret call
    mode,        \* how Compile produced the function of the current call:
                 \* "decls", "expr" (the REPL retry) or "" (no function)
    slotIds,     \* history: for each stack slot, the serial number of the
                 \* push that created it (the identity of the variable
                 \* that lives in the slot)
    nslot,       \* history: number of pushes so far
    scan         \* a Scanner read rune by rune: [s, inString, tk, line0,
                 \* calls]; tk is the token the last ScanToken returned,
                 \* line0 (history) the line at which it began, calls
                 \* (history) the number of ScanToken calls

vars == << stack, mem, frames, globals, openUpvals, upvals, closures, classes,
           instances, bounds, funs, nstr, printed, phase, result, session,
           lineNo, steps, mode, slotIds, nslot, scan >>

\* The machine as one record, so that the helpers of the VM compose as in
\* the source.  err, errLine: the RuntimeError a helper returned; ret,
\* retVal: run returned a value; panic: a Go runtime panic; now: the time
\* the clock native reads.
Machine(now) ==
    [stack |-> stack, mem |-> mem, frames |-> frames, globals |-> globals,
     openUpvals |-> openUpvals, upvals |-> upvals, closures |-> closures,
     classes |-> classes, instances |-> instances, bounds |-> bounds,
     funs |-> funs, nstr |-> nstr, printed |-> printed,
     slotIds |-> slotIds, nslot |-> nslot,
     err |-> "", errLine |-> 0, ret |-> FALSE, retVal |-> VNil, panic |-> "",
     now |-> now]

Panic(m, msg) == IF m.panic # "" THEN m ELSE [m EXCEPT !.panic = msg]

Halted(m) == m.panic # "" \/ m.err # "" \/ m.ret

(* The stack slice *)
EmptyStack == [arr |-> 0, len |-> 0]

Cap(m) == IF m.stack.arr = 0 THEN 0 ELSE Len(m.mem[m.stack.arr])

\* The sizes in bytes of the blocks the Go allocator hands out, up to the
\* largest small one.
SizeClasses ==
    {8, 16, 24, 32, 48, 64, 80, 96, 112, 128, 144, 160, 176, 192, 208, 224,
     240, 256, 288, 320, 352, 384, 416, 448, 480, 512, 576, 640, 704, 768,
     896, 1024, 1152, 1280, 1408, 1536, 1792, 2048, 2304, 2688, 3072, 3200,
     3456, 4096, 4864, 5120, 5376, 6144, 6528, 6784, 6912, 8192, 9472, 9728,
     10240, 10880, 12288, 13568, 14336, 16384, 18432, 19072, 20480, 21760,
     24576, 27264, 28672, 32768}

\* The bytes the allocator gives for size bytes: the smallest block that
\* holds them, or whole pages of 8192 bytes above the largest block.
RoundUpSize(size) ==
    IF size <= 32768
    THEN CHOOSE c \in SizeClasses :
             c >= size /\ \A d \in SizeClasses : d >= size => c <= d
    ELSE ((size + 8191) \div 8192) * 8192

\* The capacity append gives a full slice of capacity cap when one element
\* is added (growslice of the Go runtime, go 1.18 and later): twice the
\* capacity below 256 elements, cap + (cap + 3 * 256) / 4 from there on,
\* and then as many elements as the block for them holds.  A Value is an
\* interface value of 16 bytes.
GrowCap(cap) ==
    LET newcap == IF cap = 0 THEN 1
                  ELSE IF cap < 256 THEN 2 * cap
                  ELSE cap + (cap + 3 * 256) \div 4
    IN RoundUpSize(16 * newcap) \div 16

StackAt(m, i) == m.mem[m.stack.arr][i + 1]

\* vm.stack[i] = val
SetStackAt(m, i, val) ==
    IF m.panic # "" THEN m
    ELSE IF i < 0 \/ i >= m.stack.len THEN Panic(m, "index out of range")
    ELSE [m EXCEPT !.mem[m.stack.arr][i + 1] = val]

\* *ptr and *ptr = val
Deref(m, ptr) == m.mem[ptr.arr][ptr.i + 1]

\* utils.Ref(val): a pointer to a fresh copy of val.
Ref(m, val) == [m EXCEPT !.mem = Append(@, <<val>>)]

\* append(vm.stack, val)
push(m, val) ==
    IF m.panic # "" THEN m
    ELSE IF m.stack.len < Cap(m)
    THEN [m EXCEPT !.mem[m.stack.arr][m.stack.len + 1] = val,
                   !.stack.len = @ + 1,
                   !.slotIds = Append(@, m.nslot + 1), !.nslot = @ + 1]
    ELSE LET newcap == GrowCap(Cap(m))
             new == [i \in 1..newcap |->
                        IF i <= m.stack.len THEN StackAt(m, i - 1)
                        ELSE IF i = m.stack.len + 1 THEN val
                        ELSE ZeroValue]
         IN [m EXCEPT !.mem = Append(@, new),
                      !.stack = [arr |-> Len(m.mem) + 1, len |-> m.stack.len + 1],
                      !.slotIds = Append(@, m.nslot + 1), !.nslot = @ + 1]

\* pop: the machine after it; the value popped is peek(m, 0) before.
pop(m) ==
    IF m.panic # "" THEN m
    ELSE IF m.stack.len = 0 THEN Panic(m, "slice bounds out of range")
    ELSE [m EXCEPT !.stack.len = @ - 1, !.slotIds = Front(@)]

\* peek: the Value distance slots below the top.  Out of range the index
\* expression panics (peekPanics); peek itself is total.
peek(m, distance) ==
    IF m.stack.len - 1 - distance >= 0 /\ distance >= 0
    THEN StackAt(m, m.stack.len - 1 - distance)
    ELSE ZeroValue

peekPanics(m, distance) ==
    IF m.stack.len - 1 - distance >= 0 /\ distance >= 0 THEN m
    ELSE Panic(m, "index out of range")

\* vm.stack = append(vm.stack[:n], val)
truncPush(m, n, val) ==
    push([m EXCEPT !.stack.len = n, !.slotIds = SubSeq(@, 1, n)], val)

\* VM.callTrace: one entry for each frame of vm.frames, the innermost
\* first, with the line of the instruction before its ip and the name of
\* its function.
callTrace ==
    [i \in 1..Len(frames) |->
        LET fr == frames[Len(frames) - i + 1]
            fn == funs[closures[fr.clos].fun]
        IN [line |-> fn.chunk.lines[fr.ip], name |-> fn.name]]

\* A Recover that resets the value stack only.
Recover_keepsFrames(m) == [m EXCEPT !.stack = EmptyStack, !.slotIds = <<>>]

\* A Recover that resets the globals as well.
Recover_resetsGlobals(m) ==
    [m EXCEPT !.stack = EmptyStack, !.frames = <<>>, !.slotIds = <<>>,
              !.globals = [x \in {"clock"} |-> VNativeFun]]

\* Recover
Recover(m) ==
    [m EXCEPT !.stack = EmptyStack, !.frames = <<>>, !.slotIds = <<>>]

(* Frames *)
frame(m) == Last(m.frames)

chunk(m) == m.funs[m.closures[frame(m).clos].fun].chunk

ip(m) == frame(m).ip

slotIdxAt(m, idx) == IF m.frames = <<>> THEN Uninit ELSE frame(m).base + idx

\* slotAt: the stack index of the slot, or Uninit when slotAt returns nil.
slotAt(m, idx) ==
    LET idx1 == slotIdxAt(m, idx) IN
    IF idx1 = Uninit \/ idx1 >= m.stack.len THEN Uninit ELSE idx1

MkError(m, reason) ==
    IF Halted(m) THEN m
    ELSE [m EXCEPT !.err = reason,
                   !.errLine = IF m.frames = <<>> THEN 0
                               ELSE chunk(m).lines[ip(m) + 1]]

\* readByte: the byte is ReadByte(m), the machine after it is Skip(m, 1).
ReadByte(m) == chunk(m).code[ip(m) + 1]

Skip(m, n) == [m EXCEPT !.frames[Len(m.frames)].ip = @ + n]

\* readShort: the two bytes at ip, big-endian.
ReadShort(m) == (chunk(m).code[ip(m) + 1] * 256 + chunk(m).code[ip(m) + 2]) % 65536

ReadConst(m) == chunk(m).consts[ReadByte(m) + 1]

(* Upvalues *)
\* NewVUpval(val, idx): an open cell pointing at a stack slot.  org and slot
\* are history: the variable the cell was created for and its stack index.
NewVUpval(m, val, idx) ==
    [val |-> val, idx |-> idx, next |-> 0,
     org |-> m.slotIds[idx + 1], slot |-> idx]

RECURSIVE closeUpvals(_, _)
closeUpvals(m, minStackIdx) ==
    IF m.panic # "" \/ m.openUpvals = 0 THEN m
    ELSE LET head == m.openUpvals IN
         IF m.upvals[head].idx = Uninit THEN Panic(m, "nil pointer dereference")
         ELSE IF m.upvals[head].idx >= minStackIdx
         THEN \* Set idx to nil to indicate that the Upval is closed.
              closeUpvals([m EXCEPT !.upvals[head].idx = Uninit,
                                    !.openUpvals = m.upvals[head].next],
                          minStackIdx)
         ELSE m

\* The walk of captureUpval: the last cell with idx > stackIdx (prev) and
\* the cell after it (curr); 0 is nil.
RECURSIVE captureWalk(_, _, _, _)
captureWalk(m, prev, curr, stackIdx) ==
    IF curr # 0 /\ m.upvals[curr].idx > stackIdx
    THEN captureWalk(m, curr, m.upvals[curr].next, stackIdx)
    ELSE [prev |-> prev, curr |-> curr]

\* captureUpval: the machine after it and the address of the cell returned.
captureUpval(m, stackIdx) ==
    LET w == captureWalk(m, 0, m.openUpvals, stackIdx) IN
    IF m.panic # "" THEN [m |-> m, res |-> 0]
    ELSE IF w.curr # 0 /\ m.upvals[w.curr].idx = stackIdx
    THEN \* An existing VUpval can be reused.
         [m |-> m, res |-> w.curr]
    ELSE IF stackIdx < 0 \/ stackIdx >= m.stack.len
    THEN [m |-> Panic(m, "index out of range"), res |-> 0]
    ELSE LET res == Len(m.upvals) + 1
             cell == [NewVUpval(m, [arr |-> m.stack.arr, i |-> stackIdx], stackIdx)
                        EXCEPT !.next = w.curr]
             m1 == [m EXCEPT !.upvals = Append(@, cell)]
         IN [m |-> IF w.prev = 0
                   THEN [m1 EXCEPT !.openUpvals = res]
                   ELSE [m1 EXCEPT !.upvals[w.prev].next = res],
             res |-> res]

(* Calls *)
NewVClos(m, fun) ==
    [m EXCEPT !.closures = Append(@, [fun |-> fun,
                upvals |-> [i \in 1..m.funs[fun].upvalCount |-> 0]])]

NewVInstance(m, class) ==
    [m EXCEPT !.instances = Append(@, [class |-> class, fields |-> <<>>])]

NewVBoundMethod(m, this_, clos) ==
    [m EXCEPT !.bounds = Append(@, [this |-> this_, clos |-> clos])]

NewVClassObj(m, name) ==
    [m EXCEPT !.classes = Append(@, [name |-> name, methods |-> <<>>])]

\* A Go map as a function; m[k] = v adds or replaces the entry.
MapSet(map, k, v) ==
    [x \in DOMAIN map \cup {k} |-> IF x = k THEN v ELSE map[x]]

ArityMsg(arity, argCount) ==
    "expected " \o ToString(arity) \o " arguments but got " \o ToString(argCount)

\* A callClos without the arity check.
callClos_anyArity(m, clos, argCount) ==
    IF Halted(m) THEN m
    ELSE [m EXCEPT !.frames = Append(@, [clos |-> clos, ip |-> 0,
                                         base |-> m.stack.len - argCount - 1])]

callClos(m, clos, argCount) ==
    LET base == m.stack.len - argCount - 1
        arity == m.funs[m.closures[clos].fun].arity
    IN IF Halted(m) THEN m
       ELSE IF argCount # arity THEN MkError(m, ArityMsg(arity, argCount))
       ELSE [m EXCEPT !.frames = Append(@, [clos |-> clos, ip |-> 0, base |-> base])]

\* A call that runs a bound method without putting its instance in the
\* callee slot.
VM_call_keepsBound(m, callee, argCount) ==
    LET base == m.stack.len - argCount - 1 IN
    IF Halted(m) THEN m
    ELSE CASE callee.t = "class" ->
                \* Replace the called class with a new instance.
                LET m1 == SetStackAt(NewVInstance(m, callee.n), base,
                                     VInstance(Len(m.instances) + 1))
                    methods == m.classes[callee.n].methods
                IN IF "init" \in DOMAIN methods
                   THEN IF methods["init"].t = "clos"
                        THEN callClos(m1, methods["init"].n, argCount)
                        ELSE m1
                   ELSE IF argCount # 0
                   THEN MkError(m1, ArityMsg(0, argCount) \o ".")
                   ELSE m1
           [] callee.t = "bound" ->
                callClos(m, m.bounds[callee.n].clos, argCount)
           [] callee.t = "clos" -> callClos(m, callee.n, argCount)
           [] callee.t = "native" ->
                \* Chop off the frame slots and the function slot.
                truncPush(m, base, VNum(m.now))
           [] OTHER -> MkError(m, "can only call functions and classes")

\* A call that allocates the instance but leaves the class in the callee slot.
VM_call_keepsClass(m, callee, argCount) ==
    LET base == m.stack.len - argCount - 1 IN
    IF Halted(m) THEN m
    ELSE CASE callee.t = "class" ->
                LET m1 == NewVInstance(m, callee.n)
                    methods == m.classes[callee.n].methods
                IN IF "init" \in DOMAIN methods
                   THEN IF methods["init"].t = "clos"
                        THEN callClos(m1, methods["init"].n, argCount)
                        ELSE m1
                   ELSE IF argCount # 0
                   THEN MkError(m1, ArityMsg(0, argCount) \o ".")
                   ELSE m1
           [] callee.t = "bound" ->
                callClos(SetStackAt(m, base, m.bounds[callee.n].this),
                         m.bounds[callee.n].clos, argCount)
           [] callee.t = "clos" -> callClos(m, callee.n, argCount)
           [] callee.t = "native" -> truncPush(m, base, VNum(m.now))
           [] OTHER -> MkError(m, "can only call functions and classes")

VM_call(m, callee, argCount) ==
    LET base == m.stack.len - argCount - 1 IN
    IF Halted(m) THEN m
    ELSE CASE callee.t = "class" ->
                \* Replace the called class with a new instance.
                LET m1 == SetStackAt(NewVInstance(m, callee.n), base,
                                     VInstance(Len(m.instances) + 1))
                    methods == m.classes[callee.n].methods
                IN IF "init" \in DOMAIN methods
                   THEN IF methods["init"].t = "clos"
                        THEN callClos(m1, methods["init"].n, argCount)
                        ELSE m1
                   ELSE IF argCount # 0
                   THEN MkError(m1, ArityMsg(0, argCount) \o ".")
                   ELSE m1
           [] callee.t = "bound" ->
                \* Replace the called method with `this`.
                callClos(SetStackAt(m, base, m.bounds[callee.n].this),
                         m.bounds[callee.n].clos, argCount)
           [] callee.t = "clos" -> callClos(m, callee.n, argCount)
           [] callee.t = "native" ->
                \* Chop off the frame slots and the function slot.
                truncPush(m, base, VNum(m.now))
           [] OTHER -> MkError(m, "can only call functions and classes")

invokeFromClass(m, class, methodName, argCount) ==
    IF Halted(m) THEN m
    ELSE IF methodName \notin DOMAIN m.classes[class].methods
    THEN MkError(m, "undefined property '" \o methodName \o "'")
    ELSE VM_call(m, m.classes[class].methods[methodName], argCount)

(* Value operations (value.go) *)
BothNum(v, w) == v.t = "num" /\ w.t = "num"

\* Each operation gives [res, ok].
VAdd(m, v, w) ==
    IF BothNum(v, w) THEN [res |-> F64Add(F64Of(v), F64Of(w)), ok |-> TRUE]
    ELSE IF v.t = "str" /\ w.t = "str"
    THEN [res |-> VStr(m.nstr + 1, v.s \o w.s), ok |-> TRUE]
    ELSE [res |-> VNil, ok |-> FALSE]

VSub(v, w) ==
    IF BothNum(v, w) THEN [res |-> F64Sub(F64Of(v), F64Of(w)), ok |-> TRUE]
    ELSE [res |-> VNil, ok |-> FALSE]

VMul(v, w) ==
    IF BothNum(v, w) THEN [res |-> F64Mul(F64Of(v), F64Of(w)), ok |-> TRUE]
    ELSE [res |-> VNil, ok |-> FALSE]

VDiv(v, w) ==
    IF BothNum(v, w) THEN [res |-> F64Div(F64Of(v), F64Of(w)), ok |-> TRUE]
    ELSE [res |-> VNil, ok |-> FALSE]

VGreater(v, w) ==
    IF BothNum(v, w) THEN [res |-> VBool(F64Less(F64Of(w), F64Of(v))), ok |-> TRUE]
    ELSE [res |-> VNil, ok |-> FALSE]

VLess(v, w) ==
    IF BothNum(v, w) THEN [res |-> VBool(F64Less(F64Of(v), F64Of(w))), ok |-> TRUE]
    ELSE [res |-> VNil, ok |-> FALSE]

VNeg(v) ==
    IF v.t = "num" THEN [res |-> F64Neg(F64Of(v)), ok |-> TRUE]
    ELSE [res |-> VNil, ok |-> FALSE]

\* VFun.Name
FunName(m, fun) == IF m.funs[fun].name = "" THEN "?" ELSE m.funs[fun].name

\* The String method of each Value.
String(m, v) ==
    CASE v.t = "nil" -> "nil"
      [] v.t = "bool" -> IF v.n = 1 THEN "true" ELSE "false"
      [] v.t = "num" -> NumString(v)
      [] v.t = "str" -> "\"" \o v.s \o "\""
      [] v.t = "fun" -> "<fun " \o FunName(m, v.n) \o ">"
      [] v.t = "clos" -> "<fun " \o FunName(m, m.closures[v.n].fun) \o ">"
      [] v.t = "bound" ->
            "<fun " \o FunName(m, m.closures[m.bounds[v.n].clos].fun) \o ">"
      [] v.t = "native" -> "<native fun>"
      [] v.t = "class" -> "<class " \o m.classes[v.n].name \o ">"
      [] v.t = "instance" ->
            "<instanceof " \o m.classes[m.instances[v.n].class].name \o ">"
      [] OTHER -> "<nil>"

\* fmt's %v of vm.stack
RECURSIVE StackString(_, _)
StackString(m, i) ==
    IF i >= m.stack.len THEN ""
    ELSE (IF i = 0 THEN "" ELSE " ") \o String(m, StackAt(m, i))
         \o StackString(m, i + 1)

(***************************************************************************)
(* The instructions of run (vm.go).  Each Exec operator is one case of the *)
(* switch, applied to the machine after readByte has fetched the opcode.   *)
(***************************************************************************)
ExecReturn(m) ==
    LET res == peek(m, 0)
        m1 == pop(m)
        fr == frame(m1)
        \* Close every remaining open upval owned by the returning function.
        m2 == closeUpvals(m1, fr.base)
        m3 == IF m2.panic # "" THEN m2 ELSE [m2 EXCEPT !.frames = Front(@)]
    IN IF m3.panic # "" THEN m3
       ELSE IF m3.frames = <<>>
       THEN \* Special case for the top-most function.
            LET m4 == IF m3.stack.len = 2 THEN pop(pop(m3)) ELSE pop(m3)
                val == IF m3.stack.len = 2 THEN peek(m3, 0) ELSE res
            IN IF m3.stack.len \notin {1, 2}
               THEN MkError(m3, "unexpected number of values in the stack: '["
                                \o StackString(m3, 0) \o "]'")
               ELSE IF Halted(m4) THEN m4
               ELSE [m4 EXCEPT !.ret = TRUE, !.retVal = val]
       ELSE \* Chop off the frame slots from the current stack,
            \* and put the return value back to the stack top.
            truncPush(m3, fr.base, res)

ExecGetLocal(m) ==
    LET m1 == Skip(m, 1)
        slot == slotAt(m1, ReadByte(m))
    IN IF slot = Uninit THEN Panic(m1, "nil pointer dereference")
       ELSE push(m1, StackAt(m1, slot))

ExecSetLocal(m) ==
    LET m1 == Skip(m, 1)
        slot == slotAt(m1, ReadByte(m))
    IN IF slot = Uninit THEN Panic(m1, "nil pointer dereference")
       ELSE SetStackAt(peekPanics(m1, 0), slot, peek(m1, 0))

ExecGetGlobal(m) ==
    LET m1 == Skip(m, 1)
        name == ReadConst(m).s
    IN IF name \notin DOMAIN m1.globals
       THEN MkError(m1, "undefined variable '" \o name \o "'")
       ELSE push(m1, m1.globals[name])

ExecDefGlobal(m) ==
    LET m1 == Skip(m, 1)
        name == ReadConst(m).s
        m2 == pop(m1)
    IN IF m2.panic # "" THEN m2
       ELSE [m2 EXCEPT !.globals = MapSet(@, name, peek(m1, 0))]

\* An OpSetGlobal that defines the name if globals lacks it.
ExecSetGlobal_creates(m) ==
    LET m1 == Skip(m, 1)
        name == ReadConst(m).s
        m2 == peekPanics(m1, 0)
    IN IF m2.panic # "" THEN m2
       ELSE [m2 EXCEPT !.globals = MapSet(@, name, peek(m1, 0))]

\* An OpSetGlobal that drops the value.
ExecSetGlobal_discards(m) ==
    LET m1 == Skip(m, 1)
        name == ReadConst(m).s
    IN IF name \notin DOMAIN m1.globals
       THEN MkError(m1, "undefined variable '" \o name \o "'")
       ELSE peekPanics(m1, 0)

ExecSetGlobal(m) ==
    LET m1 == Skip(m, 1)
        name == ReadConst(m).s
        m2 == peekPanics(m1, 0)
    IN IF name \notin DOMAIN m1.globals
       THEN MkError(m1, "undefined variable '" \o name \o "'")
       ELSE IF m2.panic # "" THEN m2
       ELSE [m2 EXCEPT !.globals = MapSet(@, name, peek(m1, 0))]

\* vm.frame().clos.upvals[slot]: the address of the cell, 0 for nil.
frameUpval(m, slot) == m.closures[frame(m).clos].upvals[slot + 1]

ExecGetUpval(m) ==
    LET m1 == Skip(m, 1)
        upval == frameUpval(m1, ReadByte(m))
    IN IF upval = 0 THEN Panic(m1, "nil pointer dereference")
       ELSE push(m1, Deref(m1, m1.upvals[upval].val))

ExecSetUpval(m) ==
    LET m1 == Skip(m, 1)
        upval == frameUpval(m1, ReadByte(m))
        m2 == peekPanics(m1, 0)
    IN IF m2.panic # "" THEN m2
       ELSE IF upval = 0 THEN Panic(m1, "nil pointer dereference")
       ELSE [Ref(m1, peek(m1, 0)) EXCEPT
                !.upvals[upval].val = [arr |-> Len(m1.mem) + 1, i |-> 0],
                !.upvals[upval].idx = m1.stack.len - 1]

\* An OpGetProp that looks for the method before the field.
ExecGetProp_methodFirst(m) ==
    LET this_ == peek(m, 0)
        m1 == Skip(m, 1)
        name == ReadConst(m).s
        inst == m.instances[this_.n]
        methods == m.classes[inst.class].methods
    IN IF peekPanics(m, 0).panic # "" THEN peekPanics(m, 0)
       ELSE IF this_.t # "instance"
       THEN MkError(m, "only instances have properties")
       ELSE IF name \in DOMAIN methods /\ methods[name].t = "clos"
       THEN SetStackAt(NewVBoundMethod(m1, this_, methods[name].n),
                       m1.stack.len - 1,
                       VBoundMethod(Len(m1.bounds) + 1))
       ELSE IF name \in DOMAIN inst.fields
       THEN SetStackAt(m1, m1.stack.len - 1, inst.fields[name])
       ELSE MkError(m1, "undefined property '" \o name \o "'")

ExecGetProp(m) ==
    LET this_ == peek(m, 0)
        m1 == Skip(m, 1)
        name == ReadConst(m).s
        inst == m.instances[this_.n]
        methods == m.classes[inst.class].methods
    IN IF peekPanics(m, 0).panic # "" THEN peekPanics(m, 0)
       ELSE IF this_.t # "instance"
       THEN MkError(m, "only instances have properties")
       ELSE IF name \in DOMAIN inst.fields
       THEN \* Replace the instance with the result.
            SetStackAt(m1, m1.stack.len - 1, inst.fields[name])
       ELSE \* Fall back to method resolution.
            IF name \notin DOMAIN methods
            THEN MkError(m1, "undefined property '" \o name \o "'")
            ELSE IF methods[name].t # "clos"
            THEN Panic(m1, "interface conversion")
            ELSE SetStackAt(NewVBoundMethod(m1, this_, methods[name].n),
                            m1.stack.len - 1,
                            VBoundMethod(Len(m1.bounds) + 1))

ExecSetProp(m) ==
    LET this_ == peek(m, 1)
        m1 == Skip(m, 1)
        name == ReadConst(m).s
        rhs == peek(m, 0)
        m2 == [m1 EXCEPT !.instances[this_.n].fields = MapSet(@, name, rhs)]
    IN IF peekPanics(m, 1).panic # "" THEN peekPanics(m, 1)
       ELSE IF this_.t # "instance"
       THEN MkError(m, "only instances have fields")
       ELSE \* Pop off the instance, keep the RHS as its return value:
            \* slices.Delete moves the RHS one slot down.
            pop(SetStackAt(m2, m2.stack.len - 2, rhs))

\* The binary operators: pop the rhs, pop the lhs, push op(lhs, rhs).
ExecBinary(m, r, reason) ==
    LET m2 == pop(pop(m)) IN
    IF m2.panic # "" THEN m2
    ELSE IF ~r.ok THEN MkError(m2, reason)
    ELSE push(m2, r.res)

ExecNeg(m) ==
    LET m1 == pop(m)
        r == VNeg(peek(m, 0))
    IN IF m1.panic # "" THEN m1
       ELSE IF ~r.ok THEN MkError(m1, "operand must be a number")
       ELSE push(m1, r.res)

\* The sum r of two strings is a new string.
ExecAdd_sum(m, r) ==
    LET m1 == ExecBinary(m, r, "operands must be all numbers or all strings")
    IN IF r.ok /\ r.res.t = "str" /\ ~Halted(m1)
       THEN [m1 EXCEPT !.nstr = @ + 1]
       ELSE m1

ExecAdd(m) == ExecAdd_sum(m, VAdd(m, peek(m, 1), peek(m, 0)))

ExecPrint(m) ==
    LET m1 == pop(m) IN
    IF m1.panic # "" THEN m1
    ELSE [m1 EXCEPT !.printed = Append(@, String(m, peek(m, 0)))]


\* An OpJumpUnless that jumps when the condition is truthy.
ExecJumpUnless_whenTruthy(m) ==
    LET m1 == peekPanics(Skip(m, 2), 0) IN
    IF m1.panic # "" THEN m1
    ELSE IF VTruthy(peek(m1, 0)) THEN Skip(m1, ReadShort(m))
    ELSE m1

ExecJumpUnless(m) ==
    LET m1 == peekPanics(Skip(m, 2), 0) IN
    IF m1.panic # "" THEN m1
    ELSE IF ~VTruthy(peek(m1, 0)) THEN Skip(m1, ReadShort(m))
    ELSE m1

ExecCall(m) ==
    LET argCount == ReadByte(m)
        m1 == peekPanics(Skip(m, 1), argCount)
    IN VM_call(m1, peek(m1, argCount), argCount)

\* An OpInvoke that calls a field without storing it in the callee slot.
ExecInvoke_keepsReceiver(m) ==
    LET name == ReadConst(m).s
        argCount == ReadByte(Skip(m, 1))
        m2 == peekPanics(Skip(m, 2), argCount)
        this_ == peek(m2, argCount)
        inst == m2.instances[this_.n]
    IN IF m2.panic # "" THEN m2
       ELSE IF this_.t # "instance"
       THEN MkError(m2, "only instances have methods")
       ELSE IF name \in DOMAIN inst.fields
       THEN VM_call(m2, inst.fields[name], argCount)
       ELSE invokeFromClass(m2, inst.class, name, argCount)

ExecInvoke(m) ==
    LET name == ReadConst(m).s
        argCount == ReadByte(Skip(m, 1))
        m2 == peekPanics(Skip(m, 2), argCount)
        this_ == peek(m2, argCount)
        inst == m2.instances[this_.n]
        base == m2.stack.len - argCount - 1
    IN IF m2.panic # "" THEN m2
       ELSE IF this_.t # "instance"
       THEN MkError(m2, "only instances have methods")
       ELSE IF name \in DOMAIN inst.fields
       THEN VM_call(SetStackAt(m2, base, inst.fields[name]),
                    inst.fields[name], argCount)
       ELSE invokeFromClass(m2, inst.class, name, argCount)

\* The loop of OpClos over upvals[i..]: two operand bytes per upvalue.
RECURSIVE closUpvals(_, _, _)
closUpvals(m, clos, i) ==
    IF m.panic # "" \/ i > Len(m.closures[clos].upvals) THEN m
    ELSE LET isLocal == ReadByte(m) # 0   \* utils.IntToBool
             idx == ReadByte(Skip(m, 1))
             m1 == Skip(m, 2)
         IN IF isLocal
            THEN LET c == captureUpval(m1, slotIdxAt(m1, idx)) IN
                 IF c.m.panic # "" THEN c.m
                 ELSE closUpvals([c.m EXCEPT !.closures[clos].upvals[i] = c.res],
                                 clos, i + 1)
            ELSE closUpvals([m1 EXCEPT !.closures[clos].upvals[i] =
                                            frameUpval(m1, idx)],
                            clos, i + 1)

ExecClos(m) ==
    LET fun == ReadConst(m)
        m1 == Skip(m, 1)
        clos == Len(m1.closures) + 1
    IN IF fun.t # "fun" THEN Panic(m1, "interface conversion")
       ELSE closUpvals(push(NewVClos(m1, fun.n), VClos(clos)), clos, 1)

ExecClass(m) ==
    LET m1 == Skip(m, 1) IN
    push(NewVClassObj(m1, ReadConst(m).s), VClass(Len(m1.classes) + 1))

ExecMethod(m) ==
    LET name == ReadConst(m).s
        m1 == Skip(m, 1)
        method_ == peek(m1, 0)
        m2 == peekPanics(pop(m1), 0)
        class == peek(m2, 0)
    IN IF m2.panic # "" THEN m2
       ELSE IF class.t # "class" THEN Panic(m2, "interface conversion")
       ELSE [m2 EXCEPT !.classes[class.n].methods = MapSet(@, name, method_)]

(***************************************************************************)
(* Interpret and run as actions.                                           *)
(***************************************************************************)
NoError == [val |-> VNil, kind |-> "", reason |-> "", line |-> 0, errors |-> <<>>]

Commit(m) ==
    /\ stack' = m.stack
    /\ mem' = m.mem
    /\ frames' = m.frames
    /\ globals' = m.globals
    /\ openUpvals' = m.openUpvals
    /\ upvals' = m.upvals
    /\ closures' = m.closures
    /\ classes' = m.classes
    /\ instances' = m.instances
    /\ bounds' = m.bounds
    /\ funs' = m.funs
    /\ nstr' = m.nstr
    /\ printed' = m.printed
    /\ slotIds' = m.slotIds
    /\ nslot' = m.nslot

\* What follows a step of run: a Go panic ends the process; an error or a
\* value ends Interpret (whose deferred call runs Recover on an error);
\* otherwise run goes on to the next instruction.
Finish(m) ==
    IF m.panic # ""
    THEN /\ Commit(m)
         /\ phase' = "crashed"
         /\ result' = [NoError EXCEPT !.kind = "panic", !.reason = m.panic]
    ELSE IF m.err # ""
    THEN /\ Commit(Recover(m))
         /\ phase' = "idle"
         /\ result' = [NoError EXCEPT !.kind = "runtime", !.reason = m.err,
                                      !.line = m.errLine]
    ELSE IF m.ret
    THEN /\ Commit(m)
         /\ phase' = "idle"
         /\ result' = [NoError EXCEPT !.val = m.retVal]
    ELSE /\ Commit(m)
         /\ phase' = "running"
         /\ UNCHANGED result

(***************************************************************************)
(* Inputs: sessions of source lines given to Interpret one after another   *)
(* on one VM, as the REPL and the tests of the repository do.              *)
(***************************************************************************)
Session(repl, lines) == [repl |-> repl, lines |-> lines]

\* Sequences over S of length at most n.
SeqsUpTo(S, n) == UNION {[1..k -> S] : k \in 0..n}

RECURSIVE Concat(_)
Concat(ss) == IF ss = <<>> THEN <<>> ELSE Head(ss) \o Concat(Tail(ss))

\* Bounds of the input families and of a run.
MaxOps == 3

MaxLexemes == 3

MaxArity == 2

MaxSteps == 400

\* The times the clock native may read.
ClockValues == {7, 9}

(* Closure programs: a function main declares the local a and runs a      *)
(* sequence of operations on it: making a closure that writes a, making   *)
(* one that reads a, calling either, writing and reading a directly.  The *)
(* closures are kept in globals and called again after main returned.     *)
ClosOps == {"mkset", "mkget", "set", "get", "write", "read"}

ClosOpText(op) ==
    CASE op = "mkset" ->
            <<"fun", "set", "(", ")", "{", "a", "=", "\"updated\"", ";", "}",
              "gset", "=", "set", ";">>
      [] op = "mkget" ->
            <<"fun", "get", "(", ")", "{", "return", "a", ";", "}",
              "gget", "=", "get", ";">>
      [] op = "set" -> <<"gset", "(", ")", ";">>
      [] op = "get" -> <<"print", "gget", "(", ")", ";">>
      [] op = "write" -> <<"a", "=", "\"hi\"", ";">>
      [] op = "read" -> <<"print", "a", ";">>

ClosProgram(ops) ==
    Session(TRUE, <<
        <<"var", "gset", ";", "var", "gget", ";",
          "fun", "main", "(", ")", "{", "var", "a", "=", "\"initial\"", ";">>
          \o Concat([i \in 1..Len(ops) |-> ClosOpText(ops[i])])
          \o <<"return", "a", ";", "}">>,
        <<"main", "(", ")">>,
        <<"gset", "(", ")">>,
        <<"gget", "(", ")">> >>)

ClosSessions == {ClosProgram(ops) : ops \in SeqsUpTo(ClosOps, MaxOps)}

(* Logical operators: a and b, a or b over operands that are falsey,      *)
(* truthy, fail when evaluated, or have a side effect on the global g.    *)
Operands ==
    {<<"nil">>, <<"false">>, <<"true">>, <<"0">>, <<"1">>, <<"\"hi\"">>,
     <<"\"\"">>, <<"undef">>, <<"(", "g", "=", "1", ")">>}

AndOrSession(a, op, b) ==
    Session(TRUE, << <<"var", "g", "=", "0", ";">>, a \o <<op>> \o b, <<"g">> >>)

AndOrSessions ==
    {AndOrSession(a, op, b) : a \in Operands, op \in {"and", "or"}, b \in Operands}

(* REPL lines: every sequence of at most MaxLexemes lexemes of Alphabet.  *)
Alphabet == {"1", "+", ";", "var", "x", "=", "@", "("}

LineSessions ==
    {Session(TRUE, <<line>>) : line \in SeqsUpTo(Alphabet, MaxLexemes)}

(* Calls: each way of calling a closure, with every arity and every       *)
(* number of arguments up to MaxArity.                                    *)
RECURSIVE CommaList(_, _)
CommaList(item(_), n) ==
    IF n = 0 THEN <<>>
    ELSE IF n = 1 THEN <<item(1)>>
    ELSE CommaList(item, n - 1) \o <<",", item(n)>>

Param(i) == "p" \o ToString(i)

Arg(i) == "1"

Params(n) == <<"(">> \o CommaList(Param, n) \o <<")">>

Args(n) == <<"(">> \o CommaList(Arg, n) \o <<")">>

Routes == {"fun", "invoke", "bound", "init", "noinit", "field"}

CallSession(route, arity, argCount) ==
    CASE route = "fun" ->
            Session(TRUE, <<
                <<"fun", "f">> \o Params(arity) \o <<"{", "return", "5", ";", "}">>,
                <<"f">> \o Args(argCount) >>)
      [] route = "invoke" ->
            Session(TRUE, <<
                <<"class", "K", "{", "m">> \o Params(arity)
                    \o <<"{", "return", "5", ";", "}", "}">>,
                <<"K", "(", ")", ".", "m">> \o Args(argCount) >>)
      [] route = "bound" ->
            Session(TRUE, <<
                <<"class", "K", "{", "m">> \o Params(arity)
                    \o <<"{", "return", "5", ";", "}", "}">>,
                <<"var", "b", "=", "K", "(", ")", ".", "m", ";">>,
                <<"b">> \o Args(argCount) >>)
      [] route = "init" ->
            Session(TRUE, <<
                <<"class", "K", "{", "init">> \o Params(arity)
                    \o <<"{", "this", ".", "n", "=", "5", ";", "}", "}">>,
                <<"K">> \o Args(argCount) \o <<".", "n">> >>)
      [] route = "noinit" ->
            Session(TRUE, <<
                <<"class", "K", "{", "}">>,
                <<"K">> \o Args(argCount) >>)
      [] route = "field" ->
            Session(TRUE, <<
                <<"class", "K", "{", "}", "fun", "f">> \o Params(arity)
                    \o <<"{", "return", "5", ";", "}",
                         "var", "k", "=", "K", "(", ")", ";",
                         "k", ".", "f", "=", "f", ";">>,
                <<"k", ".", "f">> \o Args(argCount) >>)

CallSessions ==
    {CallSession(route, arity, argCount) :
        route \in Routes, arity \in 0..MaxArity, argCount \in 0..MaxArity}

(* Sessions after the tests of the repository.                            *)
TestCalculator ==
    Session(TRUE, <<
        <<"2", "+", "2">>,
        <<"11.4", "+", "5.14", "/", "19198.10">>,
        <<"-", "6", "*", "(", "-", "4", "+", "-", "3", ")", "==", "6", "*",
         "4", "+", "2", "*", "(", "(", "(", "(", "9", ")", ")", ")", ")">>,
        <<"4", "/", "1", "-", "4", "/", "3", "+", "4", "/", "5", "-", "4",
         "/", "7", "+", "4", "/", "9", "-", "4", "/", "11", "\n", "+", "4",
         "/", "13", "-", "4", "/", "15", "+", "4", "/", "17", "-", "4", "/",
         "19", "+", "4", "/", "21", "-", "4", "/", "23", "\n">>,
        <<"3", "\n", "+", "4", "/", "(", "2", "*", "3", "*", "4", ")", "\n",
         "-", "4", "/", "(", "4", "*", "5", "*", "6", ")", "\n", "+", "4",
         "/", "(", "6", "*", "7", "*", "8", ")", "\n", "-", "4", "/", "(",
         "8", "*", "9", "*", "10", ")", "\n", "+", "4", "/", "(", "10", "*",
         "11", "*", "12", ")", "\n", "-", "4", "/", "(", "12", "*", "13",
         "*", "14", ")", "\n">> >>)

TestVarsBlocks ==
    Session(TRUE, <<
        <<"var", "foo", "=", "2", ";">>,
        <<"foo">>,
        <<"foo", "+", "3", "==", "1", "+", "foo", "*", "foo">>,
        <<"var", "bar", ";">>,
        <<"bar">>,
        <<"bar", "=", "foo", "=", "2", ";">>,
        <<"foo">>,
        <<"bar">>,
        <<"{", "foo", "=", "foo", "+", "1", ";", "var", "bar", ";", "var",
         "foo1", "=", "foo", ";", "foo1", "=", "foo1", "+", "1", ";", "}">>,
        <<"foo">> >>)

TestVarOwnInit ==
    Session(TRUE, <<
        <<"var", "foo", "=", "2", ";">>,
        <<"{", "var", "foo", "=", "foo", ";", "}">> >>)

TestIfElse ==
    Session(TRUE, <<
        <<"var", "foo", "=", "2", ";">>,
        <<"if", "(", "foo", "==", "2", ")", "foo", "=", "foo", "+", "1", ";",
         "else", "{", "foo", "=", "42", ";", "}">>,
        <<"foo">>,
        <<"if", "(", "foo", "==", "2", ")", "{", "foo", "=", "foo", "+", "1",
         ";", "}", "else", "foo", "=", "nil", ";">>,
        <<"foo">>,
        <<"if", "(", "!", "foo", ")", "foo", "=", "1", ";">>,
        <<"foo">>,
        <<"if", "(", "foo", ")", "foo", "=", "2", ";">>,
        <<"foo">> >>)

TestAndOr ==
    Session(TRUE, <<
        <<"\"trick\"", "or", "__TREAT__">>,
        <<"996", "or", "007">>,
        <<"nil", "or", "\"hi\"">>,
        <<"nil", "and", "what">>,
        <<"true", "and", "\"then_what\"">>,
        <<"var", "B", "=", "66", ";">>,
        <<"2", "*", "B", "or", "!", "2", "*", "B">> >>)

\* TestIfAndOr, without its line of eight negations.
TestIfAndOr ==
    Session(TRUE, <<
        <<"var", "foo", "=", "2", ";">>,
        <<"if", "(", "foo", "!=", "2", "and", "whatever", ")", "foo", "=",
         "foo", "+", "42", ";", "else", "{", "foo", "=", "3", ";", "}">>,
        <<"foo">>,
        <<"if", "(", "0", "<=", "foo", "and", "foo", "<=", "3", ")", "{",
         "foo", "=", "foo", "+", "1", ";", "}", "else", "{", "foo", "=",
         "nil", ";", "}">>,
        <<"foo">>,
        <<"if", "(", "true", "or", "whatever", ")", "foo", "=", "2", ";">>,
        <<"foo">> >>)

TestWhile ==
    Session(TRUE, <<
        <<"var", "i", "=", "1", ";", "var", "product", "=", "1", ";">>,
        <<"while", "(", "i", "<=", "5", ")", "{", "product", "=", "product",
         "*", "i", ";", "i", "=", "i", "+", "1", ";", "}">>,
        <<"product">> >>)

TestWhileJump ==
    Session(TRUE, <<
        <<"var", "i", "=", "1", ";", "var", "product", "=", "1", ";">>,
        <<"while", "(", "true", ")", "{", "\n", "if", "(", "i", "==", "3",
         "or", "i", "==", "5", ")", "{", "\n", "i", "=", "i", "+", "1", ";",
         "\n", "continue", ";", "\n", "}", "\n", "product", "=", "product",
         "*", "i", ";", "\n", "i", "=", "i", "+", "1", ";", "\n", "if", "(",
         "i", ">", "6", ")", "{", "\n", "break", ";", "\n", "}", "\n", "}",
         "\n">>,
        <<"product">> >>)

TestFor ==
    Session(TRUE, <<
        <<"var", "product", "=", "1", ";">>,
        <<"for", "(", "var", "i", "=", "1", ";", "i", "<=", "5", ";", "i",
         "=", "i", "+", "1", ")", "{", "product", "=", "product", "*", "i",
         ";", "}">>,
        <<"product">> >>)

TestForBreak ==
    Session(TRUE, <<
        <<"var", "i", "=", "1", ";", "var", "product", "=", "1", ";">>,
        <<"for", "(", ";", ";", "i", "=", "i", "+", "1", ")", "{", "product",
         "=", "product", "*", "i", ";", "if", "(", "i", "==", "5", ")",
         "break", ";", "}">>,
        <<"i">>,
        <<"product">> >>)

TestForContinue ==
    Session(TRUE, <<
        <<"var", "i", "=", "1", ";", "var", "product", "=", "1", ";">>,
        <<"for", "(", ";", ";", "i", "=", "i", "+", "1", ")", "{", "product",
         "=", "product", "*", "i", ";", "if", "(", "i", "<", "5", ")",
         "continue", ";", "break", ";", "}">>,
        <<"i">>,
        <<"product">> >>)

TestFunRecursive ==
    Session(TRUE, <<
        <<"fun", "fact", "(", "i", ")", "{", "if", "(", "i", "<=", "0", ")",
         "{", "return", "1", ";", "}", "return", "i", "*", "fact", "(", "i",
         "-", "1", ")", ";", "}">>,
        <<"fact", "(", "3", ")">> >>)

\* TestClosCurrying, with its call made twice.
TestClosCurrying ==
    Session(TRUE, <<
        <<"fun", "f", "(", "j", ")", "{", "\n", "fun", "g", "(", "k", ")",
         "{", "return", "(", "1", "+", "j", ")", "*", "k", ";", "}", "\n",
         "return", "g", ";", "\n", "}", "\n">>,
        <<"f", "(", "2", ")", "(", "3", ")">>,
        <<"f", "(", "2", ")", "(", "3", ")">> >>)

TestClosCounter ==
    Session(TRUE, <<
        <<"fun", "make_counter", "(", ")", "{", "\n", "var", "i", "=", "0",
         ";", "\n", "fun", "count", "(", ")", "{", "i", "=", "i", "+", "1",
         ";", "return", "i", ";", "}", "\n", "return", "count", ";", "\n",
         "}", "\n", "var", "counter", "=", "make_counter", "(", ")", ";",
         "\n">>,
        <<"counter", "(", ")">>,
        <<"counter", "(", ")">> >>)

TestClosShareRef ==
    Session(TRUE, <<
        <<"var", "globalSet", ";", "var", "globalGet", ";", "\n", "fun",
         "main", "(", ")", "{", "\n", "var", "a", "=", "\"initial\"", ";",
         "\n", "fun", "set", "(", ")", "{", "a", "=", "\"updated\"", ";",
         "}", "\n", "fun", "get", "(", ")", "{", "return", "a", ";", "}",
         "\n", "globalSet", "=", "set", ";", "globalGet", "=", "get", ";",
         "\n", "}", "\n", "main", "(", ")", ";", "\n", "globalSet", "(", ")",
         ";", "\n">>,
        <<"globalGet", "(", ")">> >>)

\* A block-scoped variable captured and hoisted by OpCloseUpval.
TestClosBlock ==
    Session(TRUE, <<
        <<"var", "h", ";">>,
        <<"{", "var", "a", "=", "1", ";", "fun", "get", "(", ")", "{",
         "return", "a", ";", "}", "h", "=", "get", ";", "}">>,
        <<"h", "(", ")">>,
        <<"1", "+", "(", "2", "+", "h", "(", ")", ")">> >>)

TestClassGetSet ==
    Session(TRUE, <<
        <<"class", "Foo", "{", "}">>,
        <<"var", "foo", "=", "Foo", "(", ")", ";">>,
        <<"foo">>,
        <<"foo", ".", "bar", "=", "7">>,
        <<"foo", ".", "bar">>,
        <<"foo", ".", "baz", "=", "\"hi\"", "+", "\"bar\"">>,
        <<"foo", ".", "baz", "==", "foo", ".", "baz">>,
        <<"\"hi\"", "==", "\"hi\"">>,
        <<"print", "foo", ".", "baz", ";">> >>)

TestClassMethodBoundRef ==
    Session(TRUE, <<
        <<"class", "Egotist", "{", "speak", "(", ")", "{", "return",
         "\"hi\"", "+", "this", ".", "name", ";", "}", "}">>,
        <<"var", "jimmy", "=", "Egotist", "(", ")", ";", "jimmy", ".",
         "name", "=", "\"bar\"", ";">>,
        <<"jimmy", ".", "speak", "(", ")">>,
        <<"var", "s", "=", "jimmy", ".", "speak", ";">>,
        <<"s", "(", ")">> >>)

\* TestClassMethodBoundNested, with the closure returned before it is called.
TestClassMethodBoundNested ==
    Session(TRUE, <<
        <<"class", "Nested", "{", "\n", "method", "(", ")", "{", "\n",
         "fun", "f", "(", ")", "{", "return", "this", ";", "}", "\n",
         "return", "f", ";", "\n", "}", "\n", "}", "\n">>,
        <<"Nested", "(", ")", ".", "method", "(", ")", "(", ")">> >>)

TestClassInvokeOptim ==
    Session(TRUE, <<
        <<"class", "Oops", "{", "\n", "init", "(", ")", "{", "\n", "fun",
         "f", "(", ")", "{", "this", ".", "foo", "=", "\"bar\"", ";", "}",
         "\n", "this", ".", "field", "=", "f", ";", "\n", "}", "\n", "}",
         "\n">>,
        <<"var", "oops", "=", "Oops", "(", ")", ";">>,
        <<"oops", ".", "field", "(", ")", ";">>,
        <<"oops", ".", "foo">> >>)

TestClassGetInvalid ==
    Session(TRUE, <<
        <<"true", ".", "story">>,
        <<"true", ".", "story", "=", "42">>,
        <<"true", ".", "story", "(", ")">>,
        <<"1", "(", ")">>,
        <<"class", "Foo", "{", "}">>,
        <<"Foo", "(", ")", ".", "bar">>,
        <<"Foo", "(", ")", ".", "bar", "(", ")">>,
        <<"-", "nil">>,
        <<"1", "+", "nil">>,
        <<"1", "<", "nil">> >>)

\* The clock native.
TestClock ==
    Session(TRUE, <<
        <<"clock", "(", ")">>,
        <<"clock", "(", ")", "==", "clock", "(", ")">>,
        <<"var", "t", "=", "clock", "(", "1", ",", "2", ")", ";">>,
        <<"t">> >>)

\* break and continue inside a block with a local.
TestBreakLocal ==
    Session(TRUE, <<
        <<"while", "(", "true", ")", "{", "var", "x", "=", "1", ";",
         "break", ";", "}">>,
        <<"for", "(", "var", "i", "=", "0", ";", "i", "<", "2", ";", "i",
         "=", "i", "+", "1", ")", "{", "var", "y", "=", "i", ";", "continue",
         ";", "}">> >>)

\* Sources run as a file: no retry as an expression.
TestScript ==
    Session(FALSE, <<
        <<"var", "a", "=", "1", ";", "\n", "fun", "f", "(", ")", "{",
         "return", "a", ";", "}", "\n", "print", "f", "(", ")", ";", "\n">>,
        <<"1", "+", "2">>,
        <<"@">>,
        <<"print", "a">> >>)

(* Initializers: class K with an init of the given body, then K().  The   *)
(* bodies of InitReturnsThis end normally or in a bare return; those of   *)
(* InitReturnsValue have a return with a value directly in init.          *)
InitReturnsThis ==
    {<<>>,
     <<"return", ";">>,
     <<"this", ".", "n", "=", "5", ";">>,
     <<"var", "x", "=", "1", ";">>,
     <<"if", "(", "true", ")", "{", "return", ";", "}", "this", ".", "n", "=", "5", ";">>,
     <<"while", "(", "true", ")", "{", "var", "x", "=", "1", ";", "return", ";", "}">>,
     <<"fun", "f", "(", ")", "{", "return", "1", ";", "}", "this", ".", "f", "=", "f", ";">>}

InitReturnsValue ==
    {<<"return", "5", ";">>,
     <<"return", "this", ";">>,
     <<"if", "(", "true", ")", "{", "return", "nil", ";", "}">>,
     <<"this", ".", "n", "=", "5", ";", "{", "return", "this", ".", "n", ";", "}">>}

InitSession(body) ==
    Session(TRUE, <<
        <<"class", "K", "{", "init", "(", ")", "{">> \o body \o <<"}", "}">>,
        <<"K", "(", ")">> >>)

InitSessions == {InitSession(body) : body \in InitReturnsThis \cup InitReturnsValue}

(* Bound methods: the method who is read from instance a, stored in the   *)
(* global m and in a field of instance b, and called directly, two calls  *)
(* deep, through the field and from a method of b.                        *)
BoundCalls ==
    {<<"m", "(", ")">>,
     <<"call2", "(", "m", ")">>,
     <<"b", ".", "m", "(", ")">>,
     <<"b", ".", "run", "(", "m", ")">>,
     <<"b", ".", "run", "(", "b", ".", "m", ")">>}

BoundSession(call_) ==
    Session(TRUE, <<
        <<"class", "K", "{",
          "who", "(", ")", "{", "return", "this", ".", "name", ";", "}",
          "run", "(", "f", ")", "{", "return", "f", "(", ")", ";", "}", "}">>,
        <<"var", "a", "=", "K", "(", ")", ";", "a", ".", "name", "=", "\"a\"", ";",
          "var", "b", "=", "K", "(", ")", ";", "b", ".", "name", "=", "\"b\"", ";",
          "var", "m", "=", "a", ".", "who", ";",
          "fun", "call", "(", "f", ")", "{", "return", "f", "(", ")", ";", "}",
          "fun", "call2", "(", "f", ")", "{", "return", "call", "(", "f", ")", ";", "}">>,
        <<"b", ".", "m", "=", "m">>,
        call_ >>)

BoundSessions == {BoundSession(call_) : call_ \in BoundCalls}

(* Loops: programs whose prints show where each break and continue went, *)
(* with the prints the language defines for them.  The first six have     *)
(* one loop at a time, the last three a loop inside a loop.               *)
LoopPrograms ==
    {[src |->
            <<"var", "i", "=", "0", ";", "while", "(", "i", "<", "3", ")",
              "{", "i", "=", "i", "+", "1", ";", "if", "(", "i", "==", "2",
              ")", "continue", ";", "print", "i", ";", "}">>,
      out |-> <<"1", "3">>],
     [src |->
            <<"var", "i", "=", "0", ";", "while", "(", "true", ")", "{", "i",
              "=", "i", "+", "1", ";", "if", "(", "i", "==", "3", ")",
              "break", ";", "print", "i", ";", "}", "print", "9", ";">>,
      out |-> <<"1", "2", "9">>],
     [src |->
            <<"for", "(", "var", "i", "=", "0", ";", "i", "<", "3", ";", "i",
              "=", "i", "+", "1", ")", "{", "if", "(", "i", "==", "1", ")",
              "continue", ";", "print", "i", ";", "}">>,
      out |-> <<"0", "2">>],
     [src |->
            <<"for", "(", "var", "i", "=", "0", ";", ";", "i", "=", "i", "+",
              "1", ")", "{", "if", "(", "i", "==", "2", ")", "break", ";",
              "print", "i", ";", "}", "print", "9", ";">>,
      out |-> <<"0", "1", "9">>],
     [src |->
            <<"for", "(", "var", "i", "=", "0", ";", "i", "<", "3", ";", ")",
              "{", "i", "=", "i", "+", "1", ";", "if", "(", "i", "==", "2",
              ")", "continue", ";", "print", "i", ";", "}">>,
      out |-> <<"1", "3">>],
     [src |->
            <<"while", "(", "false", ")", "{", "}", "var", "k", "=", "0", ";",
              "while", "(", "k", "<", "2", ")", "{", "k", "=", "k", "+", "1",
              ";", "continue", ";", "}", "print", "k", ";">>,
      out |-> <<"2">>],
     [src |->
            <<"var", "a", "=", "0", ";", "while", "(", "a", "<", "2", ")",
              "{", "a", "=", "a", "+", "1", ";", "var", "j", "=", "0", ";",
              "while", "(", "j", "<", "2", ")", "{", "j", "=", "j", "+", "1",
              ";", "if", "(", "j", "==", "1", ")", "continue", ";", "break",
              ";", "}", "print", "a", ";", "}">>,
      out |-> <<"1", "2">>],
     [src |->
            <<"for", "(", "var", "i", "=", "0", ";", "i", "<", "2", ";", "i",
              "=", "i", "+", "1", ")", "{", "for", "(", "var", "j", "=", "0",
              ";", "j", "<", "2", ";", "j", "=", "j", "+", "1", ")", "{",
              "if", "(", "j", "==", "1", ")", "break", ";", "print", "j", ";",
              "}", "}">>,
      out |-> <<"0", "0">>],
     [src |->
            <<"var", "b", "=", "0", ";", "while", "(", "true", ")", "{",
              "while", "(", "false", ")", "{", "}", "b", "=", "b", "+", "1",
              ";", "if", "(", "b", "==", "2", ")", "break", ";", "}", "print",
              "b", ";">>,
      out |-> <<"2">>]}

LoopSession(prog) == Session(TRUE, <<prog.src>>)

LoopSessions == {LoopSession(prog) : prog \in LoopPrograms}

(* Jumps out of place: break and continue outside every loop of the     *)
(* function compiled, return at top level, each with the reason of the    *)
(* compile error.                                                         *)
MisplacedJumps ==
    {[src |->
            <<"break", ";">>,
      reason |-> "expect 'break' in a loop"],
     [src |->
            <<"while", "(", "false", ")", "{", "}", "break", ";">>,
      reason |-> "expect 'break' in a loop"],
     [src |->
            <<"for", "(", "var", "i", "=", "0", ";", "i", "<", "2", ";", "i",
              "=", "i", "+", "1", ")", "{", "fun", "g", "(", ")", "{",
              "break", ";", "}", "}">>,
      reason |-> "expect 'break' in a loop"],
     [src |->
            <<"fun", "f", "(", ")", "{", "break", ";", "}">>,
      reason |-> "expect 'break' in a loop"],
     [src |->
            <<"while", "(", "true", ")", "{", "fun", "g", "(", ")", "{",
              "break", ";", "}", "break", ";", "}">>,
      reason |-> "expect 'break' in a loop"],
     [src |->
            <<"if", "(", "true", ")", "{", "break", ";", "}">>,
      reason |-> "expect 'break' in a loop"],
     [src |->
            <<"while", "(", "true", ")", "{", "class", "K", "{", "m", "(",
              ")", "{", "break", ";", "}", "}", "}">>,
      reason |-> "expect 'break' in a loop"],
     [src |->
            <<"continue", ";">>,
      reason |-> "expect 'continue' in a loop"],
     [src |->
            <<"while", "(", "false", ")", "{", "}", "continue", ";">>,
      reason |-> "expect 'continue' in a loop"],
     [src |->
            <<"for", "(", "var", "i", "=", "0", ";", "i", "<", "2", ";", "i",
              "=", "i", "+", "1", ")", "{", "fun", "g", "(", ")", "{",
              "continue", ";", "}", "}">>,
      reason |-> "expect 'continue' in a loop"],
     [src |->
            <<"fun", "f", "(", ")", "{", "continue", ";", "}">>,
      reason |-> "expect 'continue' in a loop"],
     [src |->
            <<"while", "(", "true", ")", "{", "fun", "g", "(", ")", "{",
              "continue", ";", "}", "}">>,
      reason |-> "expect 'continue' in a loop"],
     [src |->
            <<"return", ";">>,
      reason |-> "can't return from top-level code"],
     [src |->
            <<"return", "1", ";">>,
      reason |-> "can't return from top-level code"],
     [src |->
            <<"while", "(", "true", ")", "{", "return", ";", "}">>,
      reason |-> "can't return from top-level code"],
     [src |->
            <<"{", "return", "1", ";", "}">>,
      reason |-> "can't return from top-level code"],
     [src |->
            <<"if", "(", "true", ")", "return", ";">>,
      reason |-> "can't return from top-level code"]}

MisplacedSession(prog, repl) == Session(repl, <<prog.src>>)

MisplacedSessions ==
    {MisplacedSession(prog, repl) : prog \in MisplacedJumps, repl \in BOOLEAN}

(* A function declared in a loop body that returns: it is called on every *)
(* round, and the loop goes on.                                           *)
ReturnInLoopSession ==
    Session(TRUE, <<
        <<"var", "i", ";", "var", "n", "=", "0", ";">>,
        <<"for", "(", "i", "=", "0", ";", "i", "<", "2", ";", "i", "=", "i",
          "+", "1", ")", "{", "fun", "g", "(", ")", "{", "return", ";", "n",
          "=", "9", ";", "}", "g", "(", ")", ";", "n", "=", "n", "+", "1",
          ";", "}">>,
        <<"i">>,
        <<"n">> >>)

(* Initializers that read the variable they initialize, in a session      *)
(* where a global of the name a exists; and initializers that read other  *)
(* variables, with what the program prints.                               *)
OwnInitReads ==
    {<<"{", "var", "a", "=", "a", ";", "}">>,
     <<"{", "var", "b", "=", "b", ";", "}">>,
     <<"{", "var", "a", "=", "1", ";", "{", "var", "a", "=", "a", ";", "}",
       "}">>,
     <<"fun", "f", "(", "a", ")", "{", "{", "var", "a", "=", "a", ";", "}",
       "}">>,
     <<"fun", "f", "(", ")", "{", "var", "a", "=", "a", "+", "1", ";", "}">>,
     <<"{", "var", "a", "=", "1", ";", "fun", "g", "(", ")", "{", "var", "a",
       "=", "a", ";", "}", "}">>,
     <<"for", "(", "var", "a", "=", "a", ";", "a", "<", "2", ";", "a", "=",
       "a", "+", "1", ")", "{", "}">>,
     <<"{", "var", "b", "=", "1", ";", "var", "a", "=", "b", "+", "a", ";",
       "}">>}

InitThenReads ==
    {[src |->
            <<"{", "var", "a", "=", "1", ";", "var", "b", "=", "a", ";",
              "print", "b", ";", "}">>,
      out |-> <<"1">>],
     [src |->
            <<"{", "var", "b", "=", "a", ";", "var", "a", "=", "b", "+", "1",
              ";", "print", "a", ";", "}">>,
      out |-> <<"3">>],
     [src |->
            <<"{", "var", "a", "=", "1", ";", "{", "var", "b", "=", "a", ";",
              "var", "a", "=", "b", ";", "print", "a", ";", "}", "print", "a",
              ";", "}">>,
      out |-> <<"1", "1">>],
     [src |->
            <<"fun", "f", "(", "a", ")", "{", "var", "b", "=", "a", ";", "{",
              "var", "a", "=", "b", "+", "1", ";", "print", "a", ";", "}",
              "}", "f", "(", "4", ")", ";">>,
      out |-> <<"5">>]}

OwnInitSession(src) == Session(TRUE, << <<"var", "a", "=", "2", ";">>, src >>)

OwnInitSessions ==
    {OwnInitSession(src) : src \in OwnInitReads}
    \cup {OwnInitSession(prog.src) : prog \in InitThenReads}

(* Declarations of a name a second time in the same block, the parameters *)
(* counting as declarations of the body's block; and declarations of the  *)
(* name in a deeper block, with what the program prints.                  *)
Redeclarations ==
    {<<"{", "var", "a", ";", "var", "a", ";", "}">>,
     <<"{", "var", "a", "=", "1", ";", "var", "b", "=", "2", ";", "var", "a",
       "=", "3", ";", "}">>,
     <<"fun", "f", "(", "a", ")", "{", "var", "a", ";", "}">>,
     <<"fun", "f", "(", "a", ",", "a", ")", "{", "}">>,
     <<"fun", "f", "(", ")", "{", "var", "a", ";", "var", "a", ";", "}">>,
     <<"{", "fun", "g", "(", ")", "{", "}", "var", "g", ";", "}">>,
     <<"{", "var", "a", ";", "fun", "a", "(", ")", "{", "}", "}">>,
     <<"{", "class", "K", "{", "}", "var", "K", ";", "}">>,
     <<"{", "var", "a", ";", "{", "var", "b", ";", "}", "var", "a", ";", "}">>,
     <<"class", "K", "{", "m", "(", "a", ")", "{", "var", "a", ";", "}", "}">>}

Shadowings ==
    {[src |->
            <<"{", "var", "a", "=", "1", ";", "{", "var", "a", "=", "2", ";",
              "print", "a", ";", "}", "print", "a", ";", "}">>,
      out |-> <<"2", "1">>],
     [src |->
            <<"fun", "f", "(", "a", ")", "{", "{", "var", "a", "=", "2", ";",
              "print", "a", ";", "}", "print", "a", ";", "}", "f", "(", "1",
              ")", ";">>,
      out |-> <<"2", "1">>],
     [src |->
            <<"{", "var", "a", "=", "1", ";", "{", "var", "a", "=", "2", ";",
              "{", "var", "a", "=", "3", ";", "print", "a", ";", "}", "print",
              "a", ";", "}", "print", "a", ";", "}">>,
      out |-> <<"3", "2", "1">>],
     [src |->
            <<"{", "{", "var", "a", "=", "1", ";", "print", "a", ";", "}",
              "{", "var", "a", "=", "2", ";", "print", "a", ";", "}", "}">>,
      out |-> <<"1", "2">>],
     [src |->
            <<"for", "(", "var", "i", "=", "0", ";", "i", "<", "1", ";", "i",
              "=", "i", "+", "1", ")", "{", "var", "i", "=", "5", ";",
              "print", "i", ";", "}">>,
      out |-> <<"5">>]}

ScopeSession(src) == Session(TRUE, <<src>>)

ScopeSessions ==
    {ScopeSession(src) : src \in Redeclarations}
    \cup {ScopeSession(prog.src) : prog \in Shadowings}

(* Name references: programs in which the functions named read the      *)
(* variable x, with the value the call returns, and for each function the *)
(* instructions its name references compile to (gets) and the upvalues    *)
(* OpClos captures for it, as pairs of isLocal and idx (caps).            *)
NameRef(op, n, s) == [op |-> op, n |-> n, s |-> s]

NamePrograms ==
    {[src |->
            <<"var", "x", "=", "3", ";", "fun", "outer", "(", ")", "{", "var",
              "x", "=", "2", ";", "fun", "inner", "(", ")", "{", "var", "x",
              "=", "1", ";", "return", "x", ";", "}", "return", "inner", "(",
              ")", ";", "}">>,
      call_ |-> <<"outer", "(", ")">>,
      val |-> 1,
      fns |-> <<
         [name |-> "inner", gets |-> {NameRef(OpGetLocal, 1, "")},
          caps |-> <<>>],
         [name |-> "outer", gets |-> {NameRef(OpGetLocal, 2, "")},
          caps |-> <<>>] >>],
     [src |->
            <<"var", "x", "=", "3", ";", "fun", "outer", "(", ")", "{", "var",
              "x", "=", "2", ";", "fun", "inner", "(", ")", "{", "return",
              "x", ";", "}", "return", "inner", "(", ")", ";", "}">>,
      call_ |-> <<"outer", "(", ")">>,
      val |-> 2,
      fns |-> <<
         [name |-> "inner", gets |-> {NameRef(OpGetUpval, 0, "")},
          caps |-> <<<<1, 1>>>>],
         [name |-> "outer", gets |-> {NameRef(OpGetLocal, 2, "")},
          caps |-> <<>>] >>],
     [src |->
            <<"var", "x", "=", "3", ";", "fun", "outer", "(", ")", "{", "var",
              "x", "=", "2", ";", "fun", "mid", "(", ")", "{", "fun", "inner",
              "(", ")", "{", "return", "x", ";", "}", "return", "inner", "(",
              ")", ";", "}", "return", "mid", "(", ")", ";", "}">>,
      call_ |-> <<"outer", "(", ")">>,
      val |-> 2,
      fns |-> <<
         [name |-> "inner", gets |-> {NameRef(OpGetUpval, 0, "")},
          caps |-> <<<<0, 0>>>>],
         [name |-> "mid", gets |-> {NameRef(OpGetLocal, 1, "")},
          caps |-> <<<<1, 1>>>>],
         [name |-> "outer", gets |-> {NameRef(OpGetLocal, 2, "")},
          caps |-> <<>>] >>],
     [src |->
            <<"var", "x", "=", "3", ";", "fun", "outer", "(", ")", "{", "fun",
              "inner", "(", ")", "{", "return", "x", ";", "}", "return",
              "inner", "(", ")", ";", "}">>,
      call_ |-> <<"outer", "(", ")">>,
      val |-> 3,
      fns |-> <<
         [name |-> "inner", gets |-> {NameRef(OpGetGlobal, 0, "x")},
          caps |-> <<>>],
         [name |-> "outer", gets |-> {NameRef(OpGetLocal, 1, "")},
          caps |-> <<>>] >>],
     [src |->
            <<"var", "x", "=", "3", ";", "fun", "outer", "(", ")", "{", "var",
              "x", "=", "1", ";", "fun", "mid", "(", ")", "{", "var", "x",
              "=", "2", ";", "fun", "inner", "(", ")", "{", "return", "x",
              ";", "}", "return", "inner", "(", ")", ";", "}", "return",
              "mid", "(", ")", ";", "}">>,
      call_ |-> <<"outer", "(", ")">>,
      val |-> 2,
      fns |-> <<
         [name |-> "inner", gets |-> {NameRef(OpGetUpval, 0, "")},
          caps |-> <<<<1, 1>>>>],
         [name |-> "mid", gets |-> {NameRef(OpGetLocal, 2, "")},
          caps |-> <<>>],
         [name |-> "outer", gets |-> {NameRef(OpGetLocal, 2, "")},
          caps |-> <<>>] >>],
     [src |->
            <<"var", "x", "=", "3", ";", "fun", "outer", "(", ")", "{", "fun",
              "inner", "(", ")", "{", "return", "x", ";", "}", "var", "x",
              "=", "2", ";", "return", "inner", "(", ")", "+", "x", ";", "}">>,
      call_ |-> <<"outer", "(", ")">>,
      val |-> 5,
      fns |-> <<
         [name |-> "inner", gets |-> {NameRef(OpGetGlobal, 0, "x")},
          caps |-> <<>>],
         [name |-> "outer", gets |-> {NameRef(OpGetLocal, 1, ""), NameRef(OpGetLocal, 2, "")},
          caps |-> <<>>] >>],
     [src |->
            <<"fun", "outer", "(", ")", "{", "var", "x", "=", "1", ";", "var",
              "y", "=", "2", ";", "fun", "inner", "(", ")", "{", "return",
              "x", "+", "y", "+", "x", "+", "y", ";", "}", "return", "inner",
              "(", ")", ";", "}">>,
      call_ |-> <<"outer", "(", ")">>,
      val |-> 6,
      fns |-> <<
         [name |-> "inner", gets |-> {NameRef(OpGetUpval, 0, ""), NameRef(OpGetUpval, 1, "")},
          caps |-> <<<<1, 1>>, <<1, 2>>>>],
         [name |-> "outer", gets |-> {NameRef(OpGetLocal, 3, "")},
          caps |-> <<>>] >>],
     [src |->
            <<"fun", "outer", "(", ")", "{", "var", "x", "=", "1", ";", "fun",
              "mid", "(", ")", "{", "fun", "i1", "(", ")", "{", "return", "x",
              ";", "}", "fun", "i2", "(", ")", "{", "return", "x", ";", "}",
              "return", "i1", "(", ")", "+", "i2", "(", ")", "+", "x", ";",
              "}", "return", "mid", "(", ")", ";", "}">>,
      call_ |-> <<"outer", "(", ")">>,
      val |-> 3,
      fns |-> <<
         [name |-> "i1", gets |-> {NameRef(OpGetUpval, 0, "")},
          caps |-> <<<<0, 0>>>>],
         [name |-> "i2", gets |-> {NameRef(OpGetUpval, 0, "")},
          caps |-> <<<<0, 0>>>>],
         [name |-> "mid", gets |-> {NameRef(OpGetLocal, 1, ""), NameRef(OpGetLocal, 2, ""), NameRef(OpGetUpval, 0, "")},
          caps |-> <<<<1, 1>>>>],
         [name |-> "outer", gets |-> {NameRef(OpGetLocal, 2, "")},
          caps |-> <<>>] >>],
     [src |->
            <<"fun", "outer", "(", "x", ")", "{", "var", "r", "=", "x", ";",
              "{", "var", "x", "=", "2", ";", "r", "=", "r", "+", "x", ";",
              "}", "return", "r", "+", "x", ";", "}">>,
      call_ |-> <<"outer", "(", "1", ")">>,
      val |-> 4,
      fns |-> <<
         [name |-> "outer", gets |-> {NameRef(OpGetLocal, 1, ""), NameRef(OpGetLocal, 2, ""), NameRef(OpGetLocal, 3, "")},
          caps |-> <<>>] >>]}

NameSession(prog) == Session(TRUE, <<prog.src, prog.call_>>)

NameSessions == {NameSession(prog) : prog \in NamePrograms}

(* Globals: sessions whose lines define, assign and read globals, some    *)
(* from functions compiled before the global exists, with the value each  *)
(* line answers and what the session prints.                              *)
GlobalPrograms ==
    {[lines |-> <<
            <<"fun", "f", "(", ")", "{", "return", "g", ";", "}">>,
            <<"var", "g", "=", "1", ";">>,
            <<"f", "(", ")">>,
            <<"g", "=", "2", ";">>,
            <<"f", "(", ")">>,
            <<"var", "g", "=", "3", ";">>,
            <<"f", "(", ")">> >>,
      vals |-> <<VNil, VNil, VNum(1), VNil, VNum(2), VNil, VNum(3)>>,
      out |-> <<>>],
     [lines |-> <<
            <<"fun", "f", "(", ")", "{", "return", "h", "(", ")", ";", "}">>,
            <<"fun", "h", "(", ")", "{", "return", "4", ";", "}">>,
            <<"f", "(", ")">>,
            <<"fun", "h", "(", ")", "{", "return", "5", ";", "}">>,
            <<"f", "(", ")">> >>,
      vals |-> <<VNil, VNil, VNum(4), VNil, VNum(5)>>,
      out |-> <<>>],
     [lines |-> <<
            <<"fun", "f", "(", ")", "{", "return", "g", ";", "}", "var", "g",
              "=", "1", ";", "print", "f", "(", ")", ";", "g", "=", "2", ";",
              "print", "f", "(", ")", ";">> >>,
      vals |-> <<VNil>>,
      out |-> <<"1", "2">>],
     [lines |-> <<
            <<"var", "a", "=", "1", ";">>,
            <<"var", "b", "=", "a", "+", "1", ";">>,
            <<"a", "=", "a", "+", "b", ";">>,
            <<"a", "+", "b">> >>,
      vals |-> <<VNil, VNil, VNil, VNum(5)>>,
      out |-> <<>>],
     [lines |-> <<
            <<"var", "a", "=", "1", ";", "fun", "f", "(", ")", "{", "a", "=",
              "a", "+", "1", ";", "return", "a", ";", "}">>,
            <<"f", "(", ")", "+", "f", "(", ")">>,
            <<"a">> >>,
      vals |-> <<VNil, VNum(5), VNum(3)>>,
      out |-> <<>>]}

GlobalSession(prog) == Session(TRUE, prog.lines)

GlobalSessions == {GlobalSession(prog) : prog \in GlobalPrograms}

(* Absent globals: programs that end reading or assigning the global a,   *)
(* which nothing defines, with what they print before.                    *)
AbsentGlobals ==
    {[src |->
            <<"print", "a", ";">>,
      out |-> <<>>],
     [src |->
            <<"a", "=", "1", ";">>,
      out |-> <<>>],
     [src |->
            <<"var", "b", "=", "1", ";", "a", "=", "b", ";">>,
      out |-> <<>>],
     [src |->
            <<"fun", "f", "(", ")", "{", "return", "a", ";", "}", "f", "(",
              ")", ";">>,
      out |-> <<>>],
     [src |->
            <<"fun", "f", "(", ")", "{", "a", "=", "2", ";", "}", "f", "(",
              ")", ";">>,
      out |-> <<>>],
     [src |->
            <<"var", "b", "=", "a", ";">>,
      out |-> <<>>],
     [src |->
            <<"var", "b", "=", "1", ";", "print", "b", "=", "2", ";", "print",
              "b", ";", "b", "=", "a", ";">>,
      out |-> <<"2", "2">>],
     [src |->
            <<"var", "b", "=", "1", ";", "{", "var", "c", "=", "b", "=", "3",
              ";", "print", "c", "+", "b", ";", "}", "a", "=", "b", ";">>,
      out |-> <<"6">>]}

AbsentSession(prog, repl) == Session(repl, <<prog.src>>)

AbsentSessions ==
    {AbsentSession(prog, repl) : prog \in AbsentGlobals, repl \in BOOLEAN}

(* Properties: sessions that set and get fields and methods of an         *)
(* instance and of other values, with what each line answers, as the REPL *)
(* shows it, and the runtime error the last line ends with.               *)
PropPrograms ==
    {[lines |-> <<
            <<"class", "Foo", "{", "m", "(", ")", "{", "return", "4", ";",
              "}", "}">>,
            <<"var", "foo", "=", "Foo", "(", ")", ";">>,
            <<"foo">>,
            <<"foo", ".", "bar", "=", "1">>,
            <<"foo", ".", "bar">>,
            <<"foo", ".", "bar", "=", "\"a\"">>,
            <<"foo", ".", "bar">>,
            <<"foo", ".", "baz", "=", "foo", ".", "bar", "+", "\"b\"">>,
            <<"foo", ".", "baz">>,
            <<"foo", ".", "bar">>,
            <<"foo", ".", "m">>,
            <<"foo", ".", "m", "(", ")">>,
            <<"foo", ".", "m", "=", "5">>,
            <<"foo", ".", "m">>,
            <<"foo", ".", "qux">> >>,
      shows |-> <<"nil", "nil", "<instanceof Foo>", "1", "1", "\"a\"", "\"a\"", "\"ab\"", "\"ab\"", "\"a\"", "<fun m>", "4", "5", "5", "">>,
      reason |-> "undefined property 'qux'"],
     [lines |-> <<
            <<"class", "Foo", "{", "}">>,
            <<"Foo", "(", ")", ".", "bar">> >>,
      shows |-> <<"nil", "">>,
      reason |-> "undefined property 'bar'"],
     [lines |-> <<
            <<"true", ".", "story">> >>,
      shows |-> <<"">>,
      reason |-> "only instances have properties"],
     [lines |-> <<
            <<"true", ".", "story", "=", "4">> >>,
      shows |-> <<"">>,
      reason |-> "only instances have fields"],
     [lines |-> <<
            <<"class", "Foo", "{", "}">>,
            <<"Foo", ".", "bar">> >>,
      shows |-> <<"nil", "">>,
      reason |-> "only instances have properties"],
     [lines |-> <<
            <<"class", "Foo", "{", "}">>,
            <<"Foo", ".", "bar", "=", "1">> >>,
      shows |-> <<"nil", "">>,
      reason |-> "only instances have fields"],
     [lines |-> <<
            <<"nil", ".", "x">> >>,
      shows |-> <<"">>,
      reason |-> "only instances have properties"],
     [lines |-> <<
            <<"\"a\"", ".", "b", "=", "2">> >>,
      shows |-> <<"">>,
      reason |-> "only instances have fields"],
     [lines |-> <<
            <<"clock", ".", "x">> >>,
      shows |-> <<"">>,
      reason |-> "only instances have properties"],
     [lines |-> <<
            <<"fun", "f", "(", ")", "{", "}">>,
            <<"f", ".", "x", "=", "f">> >>,
      shows |-> <<"nil", "">>,
      reason |-> "only instances have fields"]}

PropSession(prog) == Session(TRUE, prog.lines)

PropSessions == {PropSession(prog) : prog \in PropPrograms}

(* Panic mode: programs of several wrong declarations, with the first     *)
(* error of each declaration (reported) and errors that follow it in the  *)
(* same declaration (dropped).                                            *)
PanicPrograms ==
    {[src |->
            <<"var", "1", "=", ";", "var", "2", ";">>,
      reported |-> {[At |-> "1", Reason |-> "expect variable name"],
                    [At |-> "2", Reason |-> "expect variable name"]},
      dropped |-> {[At |-> ";", Reason |-> "expect expression"]}],
     [src |->
            <<"print", ";", "print", "1", "2", ";">>,
      reported |-> {[At |-> ";", Reason |-> "expect expression"],
                    [At |-> "2", Reason |-> "expect ';' after value"]},
      dropped |-> {}],
     [src |->
            <<"var", "1", "2", "3", ";", "var", "4", ";", "print", ";">>,
      reported |-> {[At |-> "1", Reason |-> "expect variable name"],
                    [At |-> "4", Reason |-> "expect variable name"],
                    [At |-> ";", Reason |-> "expect expression"]},
      dropped |-> {[At |-> "2", Reason |-> "expect ';' after variable declaration"]}],
     [src |->
            <<"print", "1", "+", ";", "print", "2", "2", ";", "fun", "f", "(",
              "{", "}", "var", "3", ";">>,
      reported |-> {[At |-> ";", Reason |-> "expect expression"],
                    [At |-> "2", Reason |-> "expect ';' after value"],
                    [At |-> "{", Reason |-> "expect parameter name"],
                    [At |-> "3", Reason |-> "expect variable name"]},
      dropped |-> {[At |-> "}", Reason |-> "expect expression"]}],
     [src |->
            <<"print", "1", "#", "2", ";", "print", ";">>,
      reported |-> {[At |-> "1", Reason |-> "unexpected character"],
                    [At |-> ";", Reason |-> "expect expression"]},
      dropped |-> {[At |-> "2", Reason |-> "expect ';' after value"]}],
     [src |->
            <<"print", ")", "#", "(", ";", "print", ";">>,
      reported |-> {[At |-> ")", Reason |-> "unexpected character"],
                    [At |-> ";", Reason |-> "expect expression"]},
      dropped |-> {[At |-> ")", Reason |-> "expect expression"]}],
     [src |->
            <<"var", "1", "2", "@", ";", "var", "3", ";">>,
      reported |-> {[At |-> "1", Reason |-> "expect variable name"],
                    [At |-> "3", Reason |-> "expect variable name"]},
      dropped |-> {}]}

PanicSession(prog) == Session(FALSE, <<prog.src>>)

PanicSessions == {PanicSession(prog) : prog \in PanicPrograms}

(* Equality: sessions whose last line compares two values with what the  *)
(* comparison answers.                                                    *)
EqPrograms ==
    {[lines |-> <<<<"nil", "==", "nil">>>>,
      val |-> TRUE],
     [lines |-> <<<<"true", "==", "true">>>>,
      val |-> TRUE],
     [lines |-> <<<<"true", "==", "false">>>>,
      val |-> FALSE],
     [lines |-> <<<<"false", "==", "false">>>>,
      val |-> TRUE],
     [lines |-> <<<<"1", "==", "1">>>>,
      val |-> TRUE],
     [lines |-> <<<<"1", "==", "2">>>>,
      val |-> FALSE],
     [lines |-> <<<<"1", "+", "1", "==", "2">>>>,
      val |-> TRUE],
     [lines |-> <<<<"2", "*", "2", "==", "5", "-", "1">>>>,
      val |-> TRUE],
     [lines |-> <<<<"1", "/", "2", "==", "0">>>>,
      val |-> FALSE],
     [lines |-> <<<<"1", "/", "2", "==", "1", "/", "3">>>>,
      val |-> FALSE],
     [lines |-> <<<<"1", "/", "2", "==", "2", "/", "4">>>>,
      val |-> TRUE],
     [lines |-> <<<<"1", "/", "2", "+", "1", "/", "2", "==", "1">>>>,
      val |-> TRUE],
     [lines |-> <<<<"0.5", "==", "1", "/", "2">>>>,
      val |-> TRUE],
     [lines |-> <<<<"0", "==", "-", "0">>>>,
      val |-> TRUE],
     [lines |-> <<<<"1", "/", "0", "==", "2", "/", "0">>>>,
      val |-> TRUE],
     [lines |-> <<<<"1", "/", "0", "==", "-", "1", "/", "0">>>>,
      val |-> FALSE],
     [lines |-> <<<<"0", "/", "0", "==", "0", "/", "0">>>>,
      val |-> FALSE],
     [lines |-> <<<<"var", "x", "=", "0", "/", "0", ";">>,
                 <<"x", "==", "x">>>>,
      val |-> FALSE],
     [lines |-> <<<<"nil", "==", "false">>>>,
      val |-> FALSE],
     [lines |-> <<<<"0", "==", "false">>>>,
      val |-> FALSE],
     [lines |-> <<<<"1", "==", "true">>>>,
      val |-> FALSE],
     [lines |-> <<<<"1", "==", "\"a\"">>>>,
      val |-> FALSE],
     [lines |-> <<<<"\"\"", "==", "nil">>>>,
      val |-> FALSE],
     [lines |-> <<<<"nil", "==", "0">>>>,
      val |-> FALSE],
     [lines |-> <<<<"\"a\"", "==", "\"b\"">>>>,
      val |-> FALSE],
     [lines |-> <<<<"\"a\"", "==", "\"\"">>>>,
      val |-> FALSE],
     [lines |-> <<<<"\"a\"", "==", "\"a\"">>>>,
      val |-> TRUE],
     [lines |-> <<<<"\"\"", "==", "\"\"">>>>,
      val |-> TRUE],
     [lines |-> <<<<"\"a\"", "+", "\"\"", "==", "\"a\"">>>>,
      val |-> TRUE],
     [lines |-> <<<<"\"a\"", "+", "\"b\"", "==", "\"a\"", "+", "\"b\"">>>>,
      val |-> TRUE],
     [lines |-> <<<<"var", "s", "=", "\"a\"", ";">>,
                 <<"s", "==", "s">>>>,
      val |-> TRUE],
     [lines |-> <<<<"var", "s", "=", "\"a\"", ";", "var", "t", "=", "\"a\"", ";">>,
                 <<"s", "==", "t">>>>,
      val |-> TRUE],
     [lines |-> <<<<"class", "A", "{", "}">>,
                 <<"A", "==", "A">>>>,
      val |-> TRUE],
     [lines |-> <<<<"class", "A", "{", "}">>,
                 <<"A", "(", ")", "==", "A", "(", ")">>>>,
      val |-> FALSE],
     [lines |-> <<<<"class", "A", "{", "}">>,
                 <<"var", "x", "=", "A", "(", ")", ";">>,
                 <<"x", "==", "x">>>>,
      val |-> TRUE],
     [lines |-> <<<<"class", "A", "{", "}", "class", "B", "{", "}">>,
                 <<"A", "==", "B">>>>,
      val |-> FALSE],
     [lines |-> <<<<"fun", "f", "(", ")", "{", "}">>,
                 <<"f", "==", "f">>>>,
      val |-> TRUE],
     [lines |-> <<<<"fun", "f", "(", ")", "{", "}", "fun", "g", "(", ")", "{", "}">>,
                 <<"f", "==", "g">>>>,
      val |-> FALSE],
     [lines |-> <<<<"clock", "==", "clock">>>>,
      val |-> TRUE],
     [lines |-> <<<<"class", "A", "{", "m", "(", ")", "{", "}", "}">>,
                 <<"var", "x", "=", "A", "(", ")", ";">>,
                 <<"x", ".", "m", "==", "x", ".", "m">>>>,
      val |-> FALSE],
     [lines |-> <<<<"class", "A", "{", "}">>,
                 <<"A", "==", "\"a\"">>>>,
      val |-> FALSE],
     [lines |-> <<<<"fun", "f", "(", ")", "{", "}">>,
                 <<"f", "==", "nil">>>>,
      val |-> FALSE]}

EqSession(prog) == Session(TRUE, prog.lines)

EqSessions == {EqSession(prog) : prog \in EqPrograms}

(* Expressions of literals, variables, unary and binary operators and     *)
(* parentheses, with the instructions in the order the parse by            *)
(* precedence levels gives: operands and operators in postfix order, a    *)
(* number for the OpConst of it, a name for the OpGetGlobal of it, neg    *)
(* for OpNeg, and the other operators as the compiler translates them.    *)
ExprPrograms ==
    {[src |-> <<"1", "+", "2", "*", "3">>,
      code |-> <<"1", "2", "3", "*", "+">>],
     [src |-> <<"1", "*", "2", "+", "3">>,
      code |-> <<"1", "2", "*", "3", "+">>],
     [src |-> <<"1", "-", "2", "-", "3">>,
      code |-> <<"1", "2", "-", "3", "-">>],
     [src |-> <<"1", "/", "2", "/", "3">>,
      code |-> <<"1", "2", "/", "3", "/">>],
     [src |-> <<"1", "-", "2", "+", "3">>,
      code |-> <<"1", "2", "-", "3", "+">>],
     [src |-> <<"1", "*", "2", "/", "3">>,
      code |-> <<"1", "2", "*", "3", "/">>],
     [src |-> <<"(", "1", "+", "2", ")", "*", "3">>,
      code |-> <<"1", "2", "+", "3", "*">>],
     [src |-> <<"1", "-", "(", "2", "-", "3", ")">>,
      code |-> <<"1", "2", "3", "-", "-">>],
     [src |-> <<"-", "1", "*", "2">>,
      code |-> <<"1", "neg", "2", "*">>],
     [src |-> <<"-", "(", "1", "*", "2", ")">>,
      code |-> <<"1", "2", "*", "neg">>],
     [src |-> <<"1", "-", "-", "2">>,
      code |-> <<"1", "2", "neg", "-">>],
     [src |-> <<"-", "-", "1">>,
      code |-> <<"1", "neg", "neg">>],
     [src |-> <<"-", "1", "-", "2">>,
      code |-> <<"1", "neg", "2", "-">>],
     [src |-> <<"!", "true", "==", "false">>,
      code |-> <<"true", "!", "false", "==">>],
     [src |-> <<"!", "(", "true", "==", "false", ")">>,
      code |-> <<"true", "false", "==", "!">>],
     [src |-> <<"!", "-", "1">>,
      code |-> <<"1", "neg", "!">>],
     [src |-> <<"1", "<", "2", "==", "3", ">", "4">>,
      code |-> <<"1", "2", "<", "3", "4", ">", "==">>],
     [src |-> <<"1", "+", "2", "<", "3", "*", "4">>,
      code |-> <<"1", "2", "+", "3", "4", "*", "<">>],
     [src |-> <<"1", "==", "2", "==", "3">>,
      code |-> <<"1", "2", "==", "3", "==">>],
     [src |-> <<"1", "<", "2", "<", "3">>,
      code |-> <<"1", "2", "<", "3", "<">>],
     [src |-> <<"a", "+", "b", "*", "c">>,
      code |-> <<"a", "b", "c", "*", "+">>],
     [src |-> <<"a", "!=", "b", "<=", "c">>,
      code |-> <<"a", "b", "c", ">", "!", "==", "!">>],
     [src |-> <<"1", ">=", "2", "!=", "3">>,
      code |-> <<"1", "2", "<", "!", "3", "==", "!">>],
     [src |-> <<"-", "a", "+", "b">>,
      code |-> <<"a", "neg", "b", "+">>],
     [src |-> <<"!", "a", "==", "!", "b">>,
      code |-> <<"a", "!", "b", "!", "==">>],
     [src |-> <<"a", "*", "(", "b", "+", "c", ")", "*", "2">>,
      code |-> <<"a", "b", "c", "+", "*", "2", "*">>],
     [src |-> <<"1", "+", "2", "*", "3", "-", "4", "/", "5">>,
      code |-> <<"1", "2", "3", "*", "+", "4", "5", "/", "-">>],
     [src |-> <<"(", "(", "1", ")", ")">>,
      code |-> <<"1">>],
     [src |-> <<"1", "==", "2", "<", "3", "+", "4", "*", "-", "5">>,
      code |-> <<"1", "2", "3", "4", "5", "neg", "*", "+", "<", "==">>],
     [src |-> <<"nil", "==", "!", "a">>,
      code |-> <<"nil", "a", "!", "==">>],
     [src |-> <<"a", "-", "b", "*", "c", "/", "(", "2", "-", "1", ")", ">", "-",
              "3">>,
      code |-> <<"a", "b", "c", "*", "2", "1", "-", "/", "-", "3", "neg", ">">>]}

ExprSession(prog) == Session(TRUE, <<prog.src>>)

ExprSessions == {ExprSession(prog) : prog \in ExprPrograms}

(* Programs with blocks and for loops, with the code of every function    *)
(* they compile to: at the end of a scope one instruction for each local  *)
(* declared in it, the last declared first, OpCloseUpval for a local a    *)
(* closure captured and OpPop otherwise; a local declared after the scope *)
(* takes the slot the scope freed.                                        *)
BlockPrograms ==
    {[src |-> <<"{", "var", "a", "=", "1", ";", "var", "b", "=", "2", ";", "}">>,
      chunks |-> {[name |-> "",
                   code |-> <<OpConst, 0, OpConst, 1, OpPop, OpPop, OpNil, OpReturn>>]}],
     [src |-> <<"{", "var", "a", "=", "1", ";",
                "fun", "f", "(", ")", "{", "return", "a", ";", "}",
                "var", "b", "=", "2", ";", "}">>,
      chunks |-> {[name |-> "f",
                   code |-> <<OpGetUpval, 0, OpReturn, OpNil, OpReturn>>],
                  [name |-> "",
                   code |-> <<OpConst, 0, OpClos, 1, 1, 1, OpConst, 2,
                              OpPop, OpPop, OpCloseUpval, OpNil, OpReturn>>]}],
     [src |-> <<"{", "var", "a", "=", "1", ";", "{", "var", "b", "=", "2", ";", "}",
                "print", "a", ";", "var", "c", "=", "3", ";", "print", "c", ";", "}">>,
      chunks |-> {[name |-> "",
                   code |-> <<OpConst, 0, OpConst, 1, OpPop, OpGetLocal, 1, OpPrint,
                              OpConst, 2, OpGetLocal, 2, OpPrint,
                              OpPop, OpPop, OpNil, OpReturn>>]}],
     [src |-> <<"{", "var", "a", "=", "1", ";", "var", "b", "=", "2", ";",
                "fun", "f", "(", ")", "{", "return", "b", ";", "}", "}",
                "{", "var", "c", "=", "3", ";", "print", "c", ";", "}">>,
      chunks |-> {[name |-> "",
                   code |-> <<OpConst, 0, OpConst, 1, OpClos, 2, 1, 2,
                              OpPop, OpCloseUpval, OpPop,
                              OpConst, 3, OpGetLocal, 1, OpPrint, OpPop,
                              OpNil, OpReturn>>]}],
     [src |-> <<"fun", "g", "(", ")", "{", "var", "x", "=", "1", ";",
                "{", "var", "y", "=", "2", ";", "var", "z", "=", "3", ";",
                "fun", "h", "(", ")", "{", "return", "y", ";", "}", "}",
                "return", "x", ";", "}">>,
      chunks |-> {[name |-> "g",
                   code |-> <<OpConst, 0, OpConst, 1, OpConst, 2, OpClos, 3, 1, 2,
                              OpPop, OpPop, OpCloseUpval,
                              OpGetLocal, 1, OpReturn, OpNil, OpReturn>>],
                  [name |-> "",
                   code |-> <<OpClos, 1, OpDefGlobal, 0, OpNil, OpReturn>>]}],
     [src |-> <<"{", "var", "a", "=", "1", ";", "var", "b", "=", "2", ";",
                "var", "c", "=", "3", ";",
                "fun", "f", "(", ")", "{", "return", "a", "+", "c", ";", "}", "}">>,
      chunks |-> {[name |-> "",
                   code |-> <<OpConst, 0, OpConst, 1, OpConst, 2, OpClos, 3, 1, 1, 1, 3,
                              OpPop, OpCloseUpval, OpPop, OpCloseUpval,
                              OpNil, OpReturn>>]}],
     [src |-> <<"{", "{", "var", "a", "=", "1", ";", "}",
                "{", "var", "b", "=", "2", ";",
                "fun", "f", "(", ")", "{", "b", "=", "3", ";", "}",
                "{", "var", "c", ";", "}", "}", "}">>,
      chunks |-> {[name |-> "",
                   code |-> <<OpConst, 0, OpPop, OpConst, 1, OpClos, 2, 1, 1,
                              OpNil, OpPop, OpPop, OpCloseUpval,
                              OpNil, OpReturn>>]}]}

BlockSession(prog) == Session(FALSE, <<prog.src>>)

BlockSessions == {BlockSession(prog) : prog \in BlockPrograms}

(* Programs with if, while, for, and, or.  jumps gives, for the operand   *)
(* offset of every jump of the script, the code offset the jump is to     *)
(* land on: the length of the code when patchJump patched it, and for an  *)
(* OpLoop the start given to emitLoop.                                    *)
JumpPrograms ==
    {[src |-> <<"if", "(", "true", ")", "print", "1", ";",
                "else", "print", "2", ";", "print", "3", ";">>,
      jumps |-> {[at |-> 2, to |-> 11], [at |-> 9, to |-> 15]}],
     [src |-> <<"if", "(", "false", ")", "print", "1", ";", "print", "2", ";">>,
      jumps |-> {[at |-> 2, to |-> 11], [at |-> 9, to |-> 12]}],
     [src |-> <<"var", "i", "=", "0", ";",
                "while", "(", "i", "<", "2", ")", "i", "=", "i", "+", "1", ";",
                "print", "i", ";">>,
      jumps |-> {[at |-> 10, to |-> 24], [at |-> 22, to |-> 4]}],
     [src |-> <<"for", "(", "var", "i", "=", "0", ";", "i", "<", "2", ";",
                "i", "=", "i", "+", "1", ")", "print", "i", ";">>,
      jumps |-> {[at |-> 8, to |-> 31], [at |-> 12, to |-> 25],
                 [at |-> 23, to |-> 2], [at |-> 29, to |-> 14]}],
     [src |-> <<"print", "nil", "or", "1", ";", "print", "1", "and", "2", ";",
                "print", "false", "and", "1", ";", "print", "1", "or", "2", ";">>,
      jumps |-> {[at |-> 2, to |-> 7], [at |-> 5, to |-> 10],
                 [at |-> 14, to |-> 19], [at |-> 22, to |-> 27],
                 [at |-> 31, to |-> 36], [at |-> 34, to |-> 39]}]}

JumpSession(prog) == Session(FALSE, <<prog.src>>)

JumpSessions == {JumpSession(prog) : prog \in JumpPrograms}

(* Programs with an = behind an expression.  ok tells whether the = is    *)
(* behind a variable or a property access parsed at assignment precedence, *)
(* and out is what the program prints then: an assignment has the value   *)
(* assigned and a = b = c assigns to b first.                             *)
AssignPrograms ==
    {[src |-> <<"var", "a", ";", "var", "b", ";", "var", "c", ";", "a", "+",
               "b", "=", "c", ";">>,
      ok |-> FALSE, out |-> <<>>],
     [src |-> <<"var", "a", ";", "(", "a", ")", "=", "1", ";">>,
      ok |-> FALSE, out |-> <<>>],
     [src |-> <<"var", "a", ";", "var", "b", ";", "a", "*", "b", ".", "c",
               "=", "1", ";">>,
      ok |-> FALSE, out |-> <<>>],
     [src |-> <<"1", "=", "2", ";">>,
      ok |-> FALSE, out |-> <<>>],
     [src |-> <<"var", "a", ";", "-", "a", "=", "1", ";">>,
      ok |-> FALSE, out |-> <<>>],
     [src |-> <<"var", "a", ";", "var", "b", ";", "a", "=", "b", "+", "a",
               "=", "1", ";">>,
      ok |-> FALSE, out |-> <<>>],
     [src |-> <<"var", "a", ";", "a", "(", ")", "=", "1", ";">>,
      ok |-> FALSE, out |-> <<>>],
     [src |-> <<"var", "a", ";", "var", "b", ";", "a", "or", "b", "=", "1",
               ";">>,
      ok |-> FALSE, out |-> <<>>],
     [src |-> <<"var", "a", ";", "print", "!", "a", "=", "1", ";">>,
      ok |-> FALSE, out |-> <<>>],
     [src |-> <<"var", "a", ";", "a", "==", "1", "=", "2", ";">>,
      ok |-> FALSE, out |-> <<>>],
     [src |-> <<"\"a\"", "=", "1", ";">>,
      ok |-> FALSE, out |-> <<>>],
     [src |-> <<"var", "a", ";", "a", ".", "b", "(", ")", "=", "1", ";">>,
      ok |-> FALSE, out |-> <<>>],
     [src |-> <<"var", "a", ";", "var", "b", ";", "if", "(", "a", "<", "b",
               "=", "1", ")", "print", "1", ";">>,
      ok |-> FALSE, out |-> <<>>],
     [src |-> <<"{", "var", "a", "=", "1", ";", "var", "b", "=", "2", ";",
               "a", "-", "b", "=", "3", ";", "}">>,
      ok |-> FALSE, out |-> <<>>],
     [src |-> <<"var", "a", "=", "1", ";", "var", "b", "=", "2", ";", "var",
               "c", "=", "3", ";", "print", "a", "=", "b", "=", "c", ";",
               "print", "a", ";", "print", "b", ";">>,
      ok |-> TRUE, out |-> <<"3", "3", "3">>],
     [src |-> <<"{", "var", "a", "=", "1", ";", "var", "b", "=", "2", ";",
               "a", "=", "b", "=", "5", ";", "print", "a", "+", "b", ";",
               "}">>,
      ok |-> TRUE, out |-> <<"10">>],
     [src |-> <<"class", "A", "{", "}", "var", "x", "=", "A", "(", ")", ";",
               "var", "y", "=", "A", "(", ")", ";", "print", "x", ".", "f",
               "=", "y", ".", "f", "=", "7", ";", "print", "x", ".", "f",
               "+", "y", ".", "f", ";">>,
      ok |-> TRUE, out |-> <<"7", "14">>],
     [src |-> <<"var", "a", "=", "1", ";", "var", "b", "=", "2", ";", "print",
               "a", "=", "b", "=", "a", "+", "3", ";", "print", "b", ";">>,
      ok |-> TRUE, out |-> <<"4", "4">>]}

AssignSession(prog) == Session(FALSE, <<prog.src>>)

AssignSessions == {AssignSession(prog) : prog \in AssignPrograms}

(* REPL sessions whose last line fails inside nested calls; depth is the   *)
(* number of call frames active when the error is raised, the frame of    *)
(* the line itself among them.                                             *)
TracePrograms ==
    {[lines |-> << <<"fun", "f", "(", ")", "{", "return", "nil", "+", "1", ";", "}">>,
                   <<"fun", "g", "(", ")", "{", "return", "f", "(", ")", ";", "}">>,
                   <<"g", "(", ")", ";">> >>,
      depth |-> 3],
     [lines |-> << <<"fun", "f", "(", ")", "{", "return", "-", "nil", ";", "}">>,
                   <<"f", "(", ")", ";">> >>,
      depth |-> 2],
     [lines |-> << <<"fun", "f", "(", "a", ")", "{", "return", "a", "(", ")", ";", "}">>,
                   <<"print", "f", "(", "f", ")", ";">> >>,
      depth |-> 2]}

TraceSession(prog) == Session(TRUE, prog.lines)

TraceSessions == {TraceSession(prog) : prog \in TracePrograms}

(* Programs that call a property of an instance o, once as o.name(args), *)
(* which compiles to OpInvoke, and once as (o.name)(args), which compiles *)
(* to OpGetProp and OpCall, with what they print and the runtime error    *)
(* they end with.                                                         *)
InvokePrograms ==
    {[setup |-> <<"class", "A", "{", "m", "(", "x", ")", "{", "return", "x",
                 "+", "1", ";", "}", "}", "var", "o", "=", "A", "(", ")",
                 ";", "\n">>,
      invoke |-> <<"print", "o", ".", "m", "(", "1", ")", ";", "\n">>,
      getCall |-> <<"print", "(", "o", ".", "m", ")", "(", "1", ")", ";",
                   "\n">>,
      out |-> <<"2">>, reason |-> ""],
     [setup |-> <<"fun", "g", "(", "x", ")", "{", "return", "x", "+", "2",
                 ";", "}", "class", "A", "{", "}", "var", "o", "=", "A", "(",
                 ")", ";", "o", ".", "f", "=", "g", ";", "\n">>,
      invoke |-> <<"print", "o", ".", "f", "(", "1", ")", ";", "\n">>,
      getCall |-> <<"print", "(", "o", ".", "f", ")", "(", "1", ")", ";",
                   "\n">>,
      out |-> <<"3">>, reason |-> ""],
     [setup |-> <<"class", "B", "{", "}", "class", "A", "{", "}", "var", "o",
                 "=", "A", "(", ")", ";", "o", ".", "f", "=", "B", ";", "\n">>,
      invoke |-> <<"print", "o", ".", "f", "(", ")", ";", "\n">>,
      getCall |-> <<"print", "(", "o", ".", "f", ")", "(", ")", ";", "\n">>,
      out |-> <<"<instanceof B>">>, reason |-> ""],
     [setup |-> <<"class", "A", "{", "}", "var", "o", "=", "A", "(", ")", ";",
                 "\n">>,
      invoke |-> <<"print", "o", ".", "x", "(", "1", ")", ";", "\n">>,
      getCall |-> <<"print", "(", "o", ".", "x", ")", "(", "1", ")", ";",
                   "\n">>,
      out |-> <<>>, reason |-> "undefined property 'x'"],
     [setup |-> <<"class", "A", "{", "m", "(", "x", ")", "{", "return", "x",
                 ";", "}", "}", "var", "o", "=", "A", "(", ")", ";", "\n">>,
      invoke |-> <<"print", "o", ".", "m", "(", ")", ";", "\n">>,
      getCall |-> <<"print", "(", "o", ".", "m", ")", "(", ")", ";", "\n">>,
      out |-> <<>>, reason |-> "expected 1 arguments but got 0"],
     [setup |-> <<"class", "A", "{", "}", "var", "o", "=", "A", "(", ")", ";",
                 "o", ".", "f", "=", "1", ";", "\n">>,
      invoke |-> <<"print", "o", ".", "f", "(", ")", ";", "\n">>,
      getCall |-> <<"print", "(", "o", ".", "f", ")", "(", ")", ";", "\n">>,
      out |-> <<>>, reason |-> "can only call functions and classes"],
     [setup |-> <<"fun", "g", "(", "x", ")", "{", "return", "x", "+", "2",
                 ";", "}", "class", "A", "{", "m", "(", "x", ")", "{",
                 "return", "x", "+", "1", ";", "}", "}", "var", "o", "=",
                 "A", "(", ")", ";", "o", ".", "m", "=", "g", ";", "\n">>,
      invoke |-> <<"print", "o", ".", "m", "(", "1", ")", ";", "\n">>,
      getCall |-> <<"print", "(", "o", ".", "m", ")", "(", "1", ")", ";",
                   "\n">>,
      out |-> <<"3">>, reason |-> ""],
     [setup |-> <<"class", "A", "{", "init", "(", "v", ")", "{", "this", ".",
                 "v", "=", "v", ";", "}", "get", "(", ")", "{", "return",
                 "this", ".", "v", ";", "}", "}", "var", "o", "=", "A", "(",
                 "7", ")", ";", "\n">>,
      invoke |-> <<"print", "o", ".", "get", "(", ")", ";", "\n">>,
      getCall |-> <<"print", "(", "o", ".", "get", ")", "(", ")", ";", "\n">>,
      out |-> <<"7">>, reason |-> ""],
     [setup |-> <<"class", "A", "{", "init", "(", "v", ")", "{", "this", ".",
                 "v", "=", "v", ";", "}", "get", "(", ")", "{", "return",
                 "this", ".", "v", ";", "}", "}", "var", "o", "=", "A", "(",
                 "7", ")", ";", "var", "p", "=", "A", "(", "5", ")", ";",
                 "o", ".", "f", "=", "p", ".", "get", ";", "\n">>,
      invoke |-> <<"print", "o", ".", "f", "(", ")", ";", "\n">>,
      getCall |-> <<"print", "(", "o", ".", "f", ")", "(", ")", ";", "\n">>,
      out |-> <<"5">>, reason |-> ""],
     [setup |-> <<"class", "A", "{", "m", "(", "x", ",", "y", ")", "{",
                 "return", "this", ";", "}", "}", "var", "o", "=", "A", "(",
                 ")", ";", "\n">>,
      invoke |-> <<"print", "o", ".", "m", "(", "1", ",", "2", ")", "==", "o",
                  ";", "\n">>,
      getCall |-> <<"print", "(", "o", ".", "m", ")", "(", "1", ",", "2", ")",
                   "==", "o", ";", "\n">>,
      out |-> <<"true">>, reason |-> ""]}

InvokeSession(prog) == Session(FALSE, <<prog.setup \o prog.invoke>>)

GetCallSession(prog) == Session(FALSE, <<prog.setup \o prog.getCall>>)

InvokeSessions ==
    {InvokeSession(prog) : prog \in InvokePrograms}
        \cup {GetCallSession(prog) : prog \in InvokePrograms}

(* Functions with two captured locals, one of them assigned through its   *)
(* upvalue while both cells are open.                                      *)
UpvalOrderPrograms ==
    {[src |-> <<"fun", "main", "(", ")", "{",
                "var", "a", "=", "1", ";", "var", "b", "=", "2", ";",
                "fun", "set", "(", ")", "{", "a", "=", "3", ";", "}",
                "fun", "get", "(", ")", "{", "return", "b", ";", "}",
                "set", "(", ")", ";", "return", "get", "(", ")", ";", "}",
                "print", "main", "(", ")", ";">>],
     [src |-> <<"fun", "main", "(", ")", "{",
                "var", "a", "=", "1", ";", "var", "b", "=", "2", ";",
                "fun", "get", "(", ")", "{", "return", "a", "+", "b", ";", "}",
                "return", "get", "(", ")", ";", "}",
                "print", "main", "(", ")", ";">>]}

UpvalOrderSession(prog) == Session(FALSE, <<prog.src>>)

UpvalOrderSessions == {UpvalOrderSession(prog) : prog \in UpvalOrderPrograms}

(* Functions with loops and blocks.  marks gives, for code offsets of f   *)
(* at which a statement begins, the number of locals the compiler has in  *)
(* scope there, the reserved slot 0 among them; out is what the program   *)
(* prints when every local is read from its own slot; jumpsOut tells      *)
(* whether a break or continue leaves a block with locals.                *)
SlotPrograms ==
    {[src |-> <<"fun", "f", "(", ")", "{", "var", "a", "=", "1", ";", "while",
               "(", "a", "<", "3", ")", "{", "var", "b", "=", "a", ";", "a",
               "=", "b", "+", "1", ";", "}", "var", "c", "=", "a", ";",
               "return", "c", ";", "}", "print", "f", "(", ")", ";", "\n">>,
      marks |-> {[at |-> 0, locals |-> 1], [at |-> 2, locals |-> 2],
                 [at |-> 11, locals |-> 2], [at |-> 13, locals |-> 3],
                 [at |-> 26, locals |-> 2], [at |-> 28, locals |-> 3]},
      out |-> <<"3">>, jumpsOut |-> FALSE],
     [src |-> <<"fun", "f", "(", ")", "{", "while", "(", "true", ")", "{",
               "var", "a", "=", "1", ";", "break", ";", "}", "var", "b", "=",
               "2", ";", "return", "b", ";", "}", "print", "f", "(", ")",
               ";", "\n">>,
      marks |-> {[at |-> 0, locals |-> 1], [at |-> 5, locals |-> 1],
                 [at |-> 7, locals |-> 2], [at |-> 15, locals |-> 1],
                 [at |-> 17, locals |-> 2]},
      out |-> <<"2">>, jumpsOut |-> TRUE],
     [src |-> <<"fun", "f", "(", ")", "{", "var", "i", "=", "0", ";", "while",
               "(", "i", "<", "2", ")", "{", "var", "a", "=", "i", ";", "i",
               "=", "i", "+", "1", ";", "continue", ";", "}", "var", "b",
               "=", "7", ";", "return", "b", ";", "}", "print", "f", "(",
               ")", ";", "\n">>,
      marks |-> {[at |-> 0, locals |-> 1], [at |-> 2, locals |-> 2],
                 [at |-> 11, locals |-> 2], [at |-> 13, locals |-> 3],
                 [at |-> 21, locals |-> 3], [at |-> 29, locals |-> 2],
                 [at |-> 31, locals |-> 3]},
      out |-> <<"7">>, jumpsOut |-> TRUE],
     [src |-> <<"fun", "f", "(", ")", "{", "for", "(", "var", "i", "=", "0",
               ";", "i", "<", "2", ";", "i", "=", "i", "+", "1", ")", "{",
               "var", "a", "=", "i", ";", "if", "(", "a", "==", "0", ")",
               "continue", ";", "break", ";", "}", "var", "b", "=", "7", ";",
               "return", "b", ";", "}", "print", "f", "(", ")", ";", "\n">>,
      marks |-> {[at |-> 0, locals |-> 1], [at |-> 2, locals |-> 2],
                 [at |-> 25, locals |-> 2], [at |-> 27, locals |-> 3],
                 [at |-> 52, locals |-> 1], [at |-> 54, locals |-> 2]},
      out |-> <<"7">>, jumpsOut |-> TRUE]}

SlotSession(prog) == Session(FALSE, <<prog.src>>)

SlotSessions == {SlotSession(prog) : prog \in SlotPrograms}

(* Loops with break and continue at the start, in the middle and at the  *)
(* end of the body, some behind an inner loop that has ended (nested),    *)
(* with what they print when the outer loop goes back to its own start    *)
(* and break and continue belong to the loop around them.                 *)
NestPrograms ==
    {[src |-> <<"var", "i", "=", "0", ";", "while", "(", "i", "<", "2", ")",
               "{", "while", "(", "false", ")", "{", "}", "i", "=", "i", "+",
               "1", ";", "}", "print", "i", ";", "\n">>,
      out |-> <<"2">>, nested |-> TRUE],
     [src |-> <<"var", "i", "=", "0", ";", "while", "(", "i", "<", "3", ")",
               "{", "i", "=", "i", "+", "1", ";", "for", "(", ";", "false",
               ";", ")", "{", "}", "if", "(", "i", "==", "2", ")", "break",
               ";", "}", "print", "i", ";", "\n">>,
      out |-> <<"2">>, nested |-> TRUE],
     [src |-> <<"for", "(", "var", "i", "=", "0", ";", "i", "<", "2", ";",
               "i", "=", "i", "+", "1", ")", "{", "while", "(", "false", ")",
               "{", "}", "continue", ";", "}", "print", "1", ";", "\n">>,
      out |-> <<"1">>, nested |-> TRUE],
     [src |-> <<"var", "i", "=", "0", ";", "while", "(", "true", ")", "{",
               "i", "=", "i", "+", "1", ";", "if", "(", "i", "<", "3", ")",
               "continue", ";", "break", ";", "}", "print", "i", ";", "\n">>,
      out |-> <<"3">>, nested |-> FALSE],
     [src |-> <<"for", "(", "var", "i", "=", "0", ";", "i", "<", "3", ";",
               "i", "=", "i", "+", "1", ")", "{", "if", "(", "i", "==", "0",
               ")", "continue", ";", "print", "i", ";", "if", "(", "i", "==",
               "1", ")", "break", ";", "}", "\n">>,
      out |-> <<"1">>, nested |-> FALSE],
     [src |-> <<"var", "i", "=", "0", ";", "while", "(", "i", "<", "2", ")",
               "{", "break", ";", "i", "=", "i", "+", "1", ";", "}", "print",
               "i", ";", "\n">>,
      out |-> <<"0">>, nested |-> FALSE]}

NestSession(prog) == Session(FALSE, <<prog.src>>)

NestSessions == {NestSession(prog) : prog \in NestPrograms}

(* Malformed programs: a string literal that no quote closes.  In the    *)
(* first a line break follows the opening quote, in the second the       *)
(* source ends.                                                           *)
UnclosedBeforeLineBreak ==
    {[src |-> <<"print", "\"a", ";", "\n">>, name |-> FALSE],
     [src |-> <<"var", "s", "=", "\"a", "\n", ";", "\n">>, name |-> FALSE]}

UnclosedAtEnd ==
    {[src |-> <<"print", "\"a", ";">>, name |-> FALSE],
     [src |-> <<"\n", "var", "s", "=", "\"a">>, name |-> FALSE]}

(* Malformed programs.  name tells whether what is wrong is the name of  *)
(* a class, of a method or of a property after '.'.                       *)
MalformedPrograms ==
    UnclosedBeforeLineBreak \cup UnclosedAtEnd \cup
    {[src |-> <<"class", "1", "{", "}", "\n">>, name |-> TRUE],
     [src |-> <<"class", "{", "}", "\n">>, name |-> TRUE],
     [src |-> <<"class", "A", "{", "1", "(", ")", "{", "}", "}", "\n">>, name |-> TRUE],
     [src |-> <<"var", "a", ";", "a", ".", "1", ";", "\n">>, name |-> TRUE],
     [src |-> <<"var", "a", ";", "a", ".", ";", "\n">>, name |-> TRUE],
     [src |-> <<"class", "A", "{", "m", "(", "{", "}", "}", "\n">>, name |-> FALSE],
     [src |-> <<"print", ";", "\n">>, name |-> FALSE],
     [src |-> <<"var", "1", "=", "2", ";", "\n">>, name |-> FALSE],
     [src |-> <<"fun", "(", ")", "{", "}", "\n">>, name |-> FALSE],
     [src |-> <<"fun", "f", "(", "1", ")", "{", "}", "\n">>, name |-> FALSE],
     [src |-> <<"{", "var", "a", "=", "a", ";", "}", "\n">>, name |-> FALSE],
     [src |-> <<"return", "1", ";", "\n">>, name |-> FALSE],
     [src |-> <<"print", "this", ";", "\n">>, name |-> FALSE],
     [src |-> <<"class", "A", "{", "init", "(", ")", "{", "return", "1", ";", "}", "}", "\n">>, name |-> FALSE],
     [src |-> <<"if", "1", ")", "print", "1", ";", "\n">>, name |-> FALSE],
     [src |-> <<"1", "+", ";", "\n">>, name |-> FALSE],
     [src |-> <<"class", "A", "{", "m", "(", ")", "{", "}", "}", "A", "(", ")", ".", "m", "(", "1", ";", "\n">>, name |-> FALSE],
     [src |-> <<"var", "a", "=", ";", "\n">>, name |-> FALSE],
     [src |-> <<"}", "\n">>, name |-> FALSE],
     [src |-> <<"while", "(", "true", "\n">>, name |-> FALSE],
     [src |-> <<"for", "(", ";", ";", "\n">>, name |-> FALSE],
     [src |-> <<"break", ";", "\n">>, name |-> FALSE],
     [src |-> <<"fun", "f", "(", ")", "{", "return", "\n">>, name |-> FALSE],
     [src |-> <<"(", "(", "(", "\n">>, name |-> FALSE],
     [src |-> <<"a", "=", "=", "1", ";", "\n">>, name |-> FALSE],
     [src |-> <<"class", "A", "{", "\n">>, name |-> FALSE],
     [src |-> <<"class", "A", "}", "\n">>, name |-> FALSE]}

MalformedSession(prog) == Session(FALSE, <<prog.src>>)

MalformedSessions == {MalformedSession(prog) : prog \in MalformedPrograms}

(* Programs that end with a runtime error.  line is the source line of   *)
(* the token whose instruction fails; split tells whether the statement   *)
(* goes on in a later line.                                               *)
ErrLinePrograms ==
    {[src |-> <<"print", "-", "nil", "\n", ";", "\n">>,
      line |-> 1, split |-> TRUE],
     [src |-> <<"print", "a", "\n", ";", "\n">>,
      line |-> 1, split |-> TRUE],
     [src |-> <<"1", "\n", "+", "\n", "nil", "\n", ";", "\n">>,
      line |-> 3, split |-> TRUE],
     [src |-> <<"var", "a", "=", "1", ";", "\n", "a", "\n", "(", "\n", "1", "\n", ")", "\n", ";", "\n">>,
      line |-> 5, split |-> TRUE],
     [src |-> <<"fun", "f", "(", "x", ")", "{", "}", "\n", "f", "(", "\n", ")", "\n", ";", "\n">>,
      line |-> 3, split |-> TRUE],
     [src |-> <<"print", "-", "nil", ";", "\n">>,
      line |-> 1, split |-> FALSE],
     [src |-> <<"print", "1", ";", "\n", "print", "-", "nil", ";", "\n", "print", "2", ";", "\n">>,
      line |-> 2, split |-> FALSE],
     [src |-> <<"var", "a", "=", "1", ";", "\n", "\n", "a", "(", ")", ";", "\n">>,
      line |-> 3, split |-> FALSE],
     [src |-> <<"fun", "f", "(", "x", ")", "{", "\n", "return", "x", ".", "y", ";", "\n", "}", "\n", "print", "1", ";", "\n", "f", "(", "1", ")", ";", "\n">>,
      line |-> 2, split |-> FALSE]}

ErrLineSession(prog) == Session(FALSE, <<prog.src>>)

ErrLineSessions == {ErrLineSession(prog) : prog \in ErrLinePrograms}

(* REPL sessions whose second line writes globals and a field and then   *)
(* fails; out is what the third line prints.                              *)
KeepPrograms ==
    {[lines |-> <<<<"var", "g", "=", "1", ";", "class", "A", "{", "}", "var", "o", "=", "A", "(", ")", ";">>,
                  <<"g", "=", "2", ";", "o", ".", "f", "=", "3", ";", "var", "h", "=", "4", ";", "nil", "(", ")", ";">>,
                  <<"print", "g", ";", "print", "o", ".", "f", ";", "print", "h", ";">>>>,
      out |-> <<"2", "3", "4">>],
     [lines |-> <<<<"var", "g", "=", "1", ";", "class", "A", "{", "}", "var", "o", "=", "A", "(", ")", ";">>,
                  <<"fun", "f", "(", ")", "{", "g", "=", "5", ";", "o", ".", "f", "=", "7", ";", "return", "-", "nil", ";", "}", "f", "(", ")", ";">>,
                  <<"print", "g", ";", "print", "o", ".", "f", ";">>>>,
      out |-> <<"5", "7">>],
     [lines |-> <<<<"var", "g", "=", "1", ";", "class", "A", "{", "}", "var", "o", "=", "A", "(", ")", ";">>,
                  <<"fun", "f", "(", "x", ")", "{", "var", "l", "=", "x", ";", "o", ".", "f", "=", "l", ";", "g", "=", "g", "+", "l", ";", "g", "=", "undef", ";", "}", "f", "(", "7", ")", ";">>,
                  <<"print", "g", ";", "print", "o", ".", "f", ";">>>>,
      out |-> <<"8", "7">>]}

KeepSession(prog) == Session(TRUE, prog.lines)

KeepSessions == {KeepSession(prog) : prog \in KeepPrograms}

(* Programs with string literals.  breaks tells whether a literal of the *)
(* first line holds a line break; out is what the session prints when    *)
(* every line is interpreted.                                             *)
StringPrograms ==
    {[repl |-> TRUE, breaks |-> TRUE,
      lines |-> <<<<"print", "\"a\nb\"", ";">>, <<"print", "1", ";">>>>,
      out |-> <<"\"a\nb\"", "1">>],
     [repl |-> TRUE, breaks |-> TRUE,
      lines |-> <<<<"print", "\"a", "\n", "b\"", ";">>, <<"print", "1", ";">>>>,
      out |-> <<"\"a\nb\"", "1">>],
     [repl |-> FALSE, breaks |-> TRUE,
      lines |-> <<<<"var", "x", "=", "\"a\nb\"", ";", "\n", "print", "x", ";">>>>,
      out |-> <<"\"a\nb\"">>],
     [repl |-> TRUE, breaks |-> FALSE,
      lines |-> <<<<"print", "\"ab\"", ";">>, <<"print", "\"c\"", "+", "\"d\"", ";">>>>,
      out |-> <<"\"ab\"", "\"cd\"">>],
     [repl |-> FALSE, breaks |-> FALSE,
      lines |-> <<<<"\n", "var", "x", "=", "\"ab\"", ";", "\n", "print", "x", ";", "\n">>>>,
      out |-> <<"\"ab\"">>]}

StringSession(prog) == Session(prog.repl, prog.lines)

StringSessions == {StringSession(prog) : prog \in StringPrograms}

Catalogue ==
    {TestCalculator, TestVarsBlocks, TestVarOwnInit, TestIfElse, TestAndOr,
     TestIfAndOr, TestWhile, TestWhileJump, TestFor, TestForBreak,
     TestForContinue, TestFunRecursive, TestClosCurrying, TestClosCounter,
     TestClosShareRef, TestClosBlock, TestClassGetSet,
     TestClassMethodBoundRef, TestClassMethodBoundNested,
     TestClassInvokeOptim, TestClassGetInvalid, TestClock, TestBreakLocal,
     TestScript}

Sessions ==
    Catalogue \cup ClosSessions \cup AndOrSessions \cup LineSessions
    \cup CallSessions
    \cup InitSessions
    \cup BoundSessions
    \cup LoopSessions
    \cup MisplacedSessions \cup {ReturnInLoopSession}
    \cup OwnInitSessions
    \cup ScopeSessions
    \cup NameSessions
    \cup GlobalSessions
    \cup AbsentSessions
    \cup PropSessions
    \cup PanicSessions
    \cup EqSessions
    \cup ExprSessions
    \cup StringSessions
    \cup BlockSessions
    \cup JumpSessions
    \cup AssignSessions
    \cup TraceSessions
    \cup InvokeSessions
    \cup UpvalOrderSessions
    \cup SlotSessions
    \cup NestSessions
    \cup MalformedSessions
    \cup ErrLineSessions
    \cup KeepSessions

\* What Interpret returns for a compile error: the diagnostics of the
\* declaration pass, chained with those of the expression pass if any.
CompileError(c) ==
    [NoError EXCEPT !.kind = "compile",
                    !.errors = IF c.err = "chained" THEN c.declsErr \o c.p.errors
                               ELSE c.p.errors,
                    !.reason = c.err]

\* NewVM: the clock native is the only global.
\* A Scanner on src before the first ScanToken.
ScanOf(src) ==
    [s |-> NewRuneScanner(src), inString |-> FALSE, tk |-> ZeroToken,
     line0 |-> 1, calls |-> 0]

Init ==
    /\ stack = EmptyStack
    /\ mem = <<>>
    /\ frames = <<>>
    /\ globals = [x \in {"clock"} |-> VNativeFun]
    /\ openUpvals = 0
    /\ upvals = <<>>
    /\ closures = <<>>
    /\ classes = <<>>
    /\ instances = <<>>
    /\ bounds = <<>>
    /\ funs = <<>>
    /\ nstr = 1
    /\ printed = <<>>
    /\ phase = "idle"
    /\ result = NoError
    /\ session \in Sessions
    /\ lineNo = 0
    /\ steps = 0
    /\ mode = ""
    /\ slotIds = <<>>
    /\ nslot = 0
    /\ scan = ScanOf(<<>>)

\* Interpret, after Compile returned c, up to the first instruction of run.
Interpret_compiled(c) ==
    LET m0 == [Machine(0) EXCEPT !.funs = c.p.funs, !.nstr = c.p.nstr]
        clos == Len(closures) + 1
        m1 == NewVClos(m0, Len(c.p.funs))
    IN IF c.p.crash = Endless
       THEN \* Compile does not return: Interpret stays in it and the VM
            \* is as it was.
            /\ Commit(Machine(0))
            /\ phase' = "scanning"
            /\ UNCHANGED result
            /\ mode' = ""
       ELSE IF c.p.crash # ""
       THEN /\ Finish(Panic(m0, c.p.crash))
            /\ mode' = ""
       ELSE IF c.err # ""
       THEN /\ Commit(Recover(m1))
            /\ phase' = "idle"
            /\ result' = CompileError(c)
            /\ mode' = ""
       ELSE \* Push the current function to stack slot 0 and set up the
            \* call frame for the top-level code.
            /\ Finish(VM_call(push(m1, VClos(clos)), VClos(clos), 0))
            /\ mode' = IF c.declsErr # <<>> THEN "expr" ELSE "decls"

\* Interpret(src, isREPL) on the next line of the session.
Interpret ==
    /\ phase = "idle"
    /\ lineNo < Len(session.lines)
    /\ Interpret_compiled(Compile(NewParser(funs, nstr),
                                  session.lines[lineNo + 1], session.repl))
    /\ lineNo' = lineNo + 1
    /\ steps' = 0
    /\ UNCHANGED << session, scan >>

\* switch inst := OpCode(readByte()): the instruction at ip is op.
Fetch(op) ==
    /\ phase = "running"
    /\ steps < MaxSteps
    /\ ReadByte(Machine(0)) = op

\* The machine after the opcode has been read.
Fetched(now) == Skip(Machine(now), 1)

Done(m) ==
    /\ Finish(m)
    /\ steps' = steps + 1
    /\ UNCHANGED << session, lineNo, mode, scan >>

\* One round of the loop of run: the instruction at ip is op and m is the
\* machine after its case of the switch.
Step(op, m) == Fetch(op) /\ Done(m)

\* The clock native reads the time: any of ClockValues.
Next ==
    \/ Interpret
    \/ Step(OpReturn, ExecReturn(Fetched(0)))
    \/ Step(OpConst, push(Skip(Fetched(0), 1), ReadConst(Fetched(0))))
    \/ Step(OpNil, push(Fetched(0), VNil))
    \/ Step(OpTrue, push(Fetched(0), VBool(TRUE)))
    \/ Step(OpFalse, push(Fetched(0), VBool(FALSE)))
    \/ Step(OpPop, pop(Fetched(0)))
    \/ Step(OpGetLocal, ExecGetLocal(Fetched(0)))
    \/ Step(OpSetLocal, ExecSetLocal(Fetched(0)))
    \/ Step(OpGetGlobal, ExecGetGlobal(Fetched(0)))
    \/ Step(OpDefGlobal, ExecDefGlobal(Fetched(0)))
    \/ Step(OpSetGlobal, ExecSetGlobal(Fetched(0)))
    \/ Step(OpGetUpval, ExecGetUpval(Fetched(0)))
    \/ Step(OpSetUpval, ExecSetUpval(Fetched(0)))
    \/ Step(OpGetProp, ExecGetProp(Fetched(0)))
    \/ Step(OpSetProp, ExecSetProp(Fetched(0)))
    \/ Step(OpEqual, ExecBinary(Fetched(0), [res |-> VBool(VEq(peek(Fetched(0), 1), peek(Fetched(0), 0))),
                                      ok |-> TRUE], ""))
    \/ Step(OpGreater, ExecBinary(Fetched(0), VGreater(peek(Fetched(0), 1), peek(Fetched(0), 0)),
                         "operands must be numbers"))
    \/ Step(OpLess, ExecBinary(Fetched(0), VLess(peek(Fetched(0), 1), peek(Fetched(0), 0)),
                         "operands must be numbers"))
    \/ Step(OpNot, push(pop(Fetched(0)), VBool(~VTruthy(peek(Fetched(0), 0)))))
    \/ Step(OpNeg, ExecNeg(Fetched(0)))
    \/ Step(OpAdd, ExecAdd(Fetched(0)))
    \/ Step(OpSub, ExecBinary(Fetched(0), VSub(peek(Fetched(0), 1), peek(Fetched(0), 0)),
                         "operands must be numbers"))
    \/ Step(OpMul, ExecBinary(Fetched(0), VMul(peek(Fetched(0), 1), peek(Fetched(0), 0)),
                         "operands must be numbers"))
    \/ Step(OpDiv, ExecBinary(Fetched(0), VDiv(peek(Fetched(0), 1), peek(Fetched(0), 0)),
                         "operands must be numbers"))
    \/ Step(OpPrint, ExecPrint(Fetched(0)))
    \/ Step(OpJump, Skip(Fetched(0), 2 + ReadShort(Fetched(0))))
    \/ Step(OpJumpUnless, ExecJumpUnless(Fetched(0)))
    \/ Step(OpLoop, Skip(Fetched(0), 2 - ReadShort(Fetched(0))))
    \/ \E now \in ClockValues : Step(OpCall, ExecCall(Fetched(now)))
    \/ \E now \in ClockValues : Step(OpInvoke, ExecInvoke(Fetched(now)))
    \/ Step(OpClos, ExecClos(Fetched(0)))
    \/ Step(OpCloseUpval, pop(closeUpvals(Fetched(0), Fetched(0).stack.len - 1)))
    \/ Step(OpClass, ExecClass(Fetched(0)))
    \/ Step(OpMethod, ExecMethod(Fetched(0)))

Spec == Init /\ [][Next]_vars

(***************************************************************************)
(* The scanner alone: ScanToken is called on a source of runes until it    *)
(* returns TEOF, as advance calls it; the loop of the string literal is    *)
(* one step a round.                                                       *)
(***************************************************************************)
\* Bounds: length of a source, and the lines the scanner counts up to.
MaxRunes == 4
MaxLine == 8

Runes == {"\"", "a", "\n", " ", "/", "1"}

ScanInit ==
    /\ stack = EmptyStack
    /\ mem = <<>>
    /\ frames = <<>>
    /\ globals = [x \in {"clock"} |-> VNativeFun]
    /\ openUpvals = 0
    /\ upvals = <<>>
    /\ closures = <<>>
    /\ classes = <<>>
    /\ instances = <<>>
    /\ bounds = <<>>
    /\ funs = <<>>
    /\ nstr = 1
    /\ printed = <<>>
    /\ phase = "idle"
    /\ result = NoError
    /\ session = Session(FALSE, <<>>)
    /\ lineNo = 0
    /\ steps = 0
    /\ mode = ""
    /\ slotIds = <<>>
    /\ nslot = 0
    /\ scan \in {ScanOf(src) : src \in SeqsUpTo(Runes, MaxRunes)}

ScanStep(r, line0, calls) ==
    /\ scan.s.line < MaxLine
    /\ scan' = [s |-> r.s, inString |-> r.inString, tk |-> r.tk,
                line0 |-> line0, calls |-> calls]
    /\ UNCHANGED << stack, mem, frames, globals, openUpvals, upvals, closures,
                    classes, instances, bounds, funs, nstr, printed, phase,
                    result, session, lineNo, steps, mode, slotIds, nslot >>

\* ScanToken is called, unless the last call returned TEOF.
ScanTokenCall ==
    /\ ~scan.inString
    /\ scan.tk.Type # "TEOF"
    /\ ScanStep(Scanner_ScanToken(scan.s),
                Scanner_skipWhitespace(scan.s).line, scan.calls + 1)

\* A round of the loop of the string literal.
ScanTokenString ==
    /\ scan.inString
    /\ ScanStep(Scanner_string(scan.s), scan.line0, scan.calls)

ScanNext == ScanTokenCall \/ ScanTokenString

ScanSpec == ScanInit /\ [][ScanNext]_vars

(***************************************************************************)
(* Properties.                                                             *)
(***************************************************************************)
\* The instruction run executes next is op.
AtOp(op) == phase = "running" /\ ReadByte(Machine(0)) = op

\* The value OpGetUpval reads through cell u.
UpvalValue(u) == mem[upvals[u].val.arr][upvals[u].val.i + 1]

\* The cells some closure holds.
Captured ==
    {u \in 1..Len(upvals) :
        \E c \in 1..Len(closures) :
            \E i \in 1..Len(closures[c].upvals) : closures[c].upvals[i] = u}

\* The cells of the list that starts at head.
RECURSIVE OpenFrom(_, _, _)
OpenFrom(ups, head, seen) ==
    IF head = 0 \/ head \in seen THEN seen
    ELSE OpenFrom(ups, ups[head].next, seen \cup {head})

OpenCells == OpenFrom(upvals, openUpvals, {})

\* C1: closures that captured the same local variable read the same value
\* through their upvalues, whatever the order of the captures and of the
\* writes, while the declaring function is active and after it returned.
C1_CapturesShareValue ==
    \A u \in Captured : \A v \in Captured :
        upvals[u].org = upvals[v].org => UpvalValue(u) = UpvalValue(v)

\* The step is an OpSetUpval through cell u.
WritesThrough(u) ==
    /\ AtOp(OpSetUpval)
    /\ frameUpval(Fetched(0), ReadByte(Fetched(0))) = u

\* C2: once an upvalue is closed, the value read through it changes only by
\* an OpSetUpval through it: no other instruction (push, call, return)
\* changes it.
C2_ClosedUpvalStable ==
    [][\A u \in Captured :
          (upvals[u].idx = Uninit /\ ~WritesThrough(u))
              => UpvalValue(u)' = UpvalValue(u)]_vars

\* The variable cell u was created for is still in its stack slot.
VariableLive(u) ==
    /\ upvals[u].slot < stack.len
    /\ slotIds[upvals[u].slot + 1] = upvals[u].org

\* C3: while the captured variable is on the stack, the upvalue and the
\* stack slot hold the same value: a write through either is read through
\* the other.
C3_OpenUpvalAliasesSlot ==
    \A u \in Captured :
        VariableLive(u) => UpvalValue(u) = mem[stack.arr][upvals[u].slot + 1]

\* C4: whenever Interpret has returned (a value, a compile error or a
\* runtime error), the value stack and the frame stack are empty.
C4_InterpretLeavesEmpty ==
    phase = "idle" => stack.len = 0 /\ frames = <<>>

\* Interpret returned a runtime error raised inside a called function.
C4_Witness ==
    /\ phase = "idle"
    /\ result.kind = "runtime"
    /\ result.reason = "expected 1 arguments but got 2"
    /\ session = CallSession("fun", 1, 2)
    /\ stack.len = 0
    /\ frames = <<>>

\* No cell is left in the list of m with idx >= minStackIdx.
ClosedFrom(m, minStackIdx) ==
    /\ m.panic = ""
    /\ \A u \in OpenFrom(m.upvals, m.openUpvals, {}) : m.upvals[u].idx < minStackIdx

\* C5: at every instruction boundary and between Interpret calls, every cell
\* of openUpvals has 0 <= idx < len(stack); and after closeUpvals(m), as
\* OpCloseUpval and OpReturn call it, no cell of the list has idx >= m.
C5_OpenUpvalsInRange ==
    /\ phase # "crashed" =>
          \A u \in OpenCells :
              /\ upvals[u].idx # Uninit
              /\ 0 <= upvals[u].idx
              /\ upvals[u].idx < stack.len
    /\ AtOp(OpCloseUpval) =>
          ClosedFrom(closeUpvals(Fetched(0), stack.len - 1), stack.len - 1)
    /\ AtOp(OpReturn) =>
          ClosedFrom(closeUpvals(pop(Fetched(0)), Last(frames).base),
                     Last(frames).base)

\* The operands of the sessions of AndOrSessions: their value, whether
\* evaluating them fails, whether evaluating them sets g.
OperandValue(x) ==
    CASE x = <<"nil">> -> VNil
      [] x = <<"false">> -> VBool(FALSE)
      [] x = <<"true">> -> VBool(TRUE)
      [] x = <<"0">> -> VNum(0)
      [] x = <<"1">> -> VNum(1)
      [] x = <<"\"hi\"">> -> VStr(0, "hi")
      [] x = <<"\"\"">> -> VStr(0, "")
      [] x = <<"(", "g", "=", "1", ")">> -> VNum(1)
      [] OTHER -> VNil

OperandFails(x) == x = <<"undef">>

OperandSetsG(x) == x = <<"(", "g", "=", "1", ")">>

\* Lox truthiness: nil and false are falsey, every other value is truthy.
OperandTruthy(x) == x \notin {<<"nil">>, <<"false">>}

\* Equality of Values up to the address of a string.
SameValue(v, w) ==
    v.t = w.t /\ v.s = w.s /\ v.f = w.f /\ (v.t # "str" => v.n = w.n)

\* a decides a op b: b is not evaluated.
Decides(a, op) == IF op = "and" THEN ~OperandTruthy(a) ELSE OperandTruthy(a)

\* What a op b must do: whether b is evaluated, whether the line fails, its
\* value, and the value of g after it.
AndOrOutcome(a, op, b) ==
    [fails |-> OperandFails(a) \/ (~Decides(a, op) /\ OperandFails(b)),
     value |-> IF Decides(a, op) THEN OperandValue(a) ELSE OperandValue(b),
     g |-> IF OperandSetsG(a)
              \/ (~OperandFails(a) /\ ~Decides(a, op) /\ OperandSetsG(b))
           THEN 1 ELSE 0]

\* The line a op b of its session under the outcome o.
AndOrHolds(o) ==
    /\ (phase = "idle" /\ lineNo = 2) =>
          IF o.fails
          THEN /\ result.kind = "runtime"
               /\ result.reason = "undefined variable 'undef'"
          ELSE /\ result.kind = ""
               /\ SameValue(result.val, o.value)
    \* The end of the expression: one value above the script closure.
    /\ (phase = "running" /\ lineNo = 2 /\ Len(frames) = 1
          /\ frames[1].ip = Len(chunk(Machine(0)).code) - 2) =>
          /\ ~o.fails
          /\ stack.len = 2
          /\ SameValue(mem[stack.arr][2], o.value)
    \* The third line reads g: 1 iff an operand that sets g was evaluated.
    /\ (phase = "idle" /\ lineNo = 3) =>
          /\ result.kind = ""
          /\ result.val = VNum(o.g)

\* C6: a and b evaluates a and yields it if it is falsey, otherwise yields
\* b; a or b yields a if it is truthy, otherwise b; when a decides, b is
\* not executed; exactly one value is left on the stack.
C6_AndOrShortCircuit ==
    \A a \in Operands : \A b \in Operands : \A op \in {"and", "or"} :
        session = AndOrSession(a, op, b) => AndOrHolds(AndOrOutcome(a, op, b))

\* nil and undef returned nil: undef was not evaluated.
C6_Witness ==
    /\ session = AndOrSession(<<"nil">>, "and", <<"undef">>)
    /\ phase = "idle"
    /\ lineNo = 2
    /\ result.kind = ""
    /\ result.val = VNil

\* C7: in the REPL a line that compiles as declarations yields nil, a line
\* that is a single expression yields the value of the expression, and the
\* stack is empty afterwards.
C7_ReplLineValue ==
    (session.repl /\ phase = "idle" /\ lineNo > 0 /\ result.kind = "") =>
        /\ stack.len = 0
        /\ mode = "decls" => result.val = VNil
        /\ (mode = "expr" /\ session.lines[lineNo] = <<"1">>) =>
              result.val = VNum(1)
        /\ (mode = "expr" /\ session.lines[lineNo] = <<"1", "+", "1">>) =>
              result.val = VNum(2)

\* src does not compile as a sequence of declarations.
DeclsFail(src) ==
    compileWithRule(NewParser(<<>>, 1), src, "decls").errors # <<>>

\* src is one expression: it parses as an expression up to its end.
SingleExpr(src) ==
    LET p == compileWithRule(NewParser(<<>>, 1), src, "expr") IN
    p.crash = "" /\ p.errors = <<>> /\ p.curr.Type = "TEOF"

\* C8: in the REPL a line that neither compiles as declarations nor is a
\* single expression is rejected with the diagnostics of both attempts
\* chained, and no instruction is executed for it.
C8_ReplRejects ==
    (session.repl /\ phase = "idle" /\ lineNo > 0
        /\ DeclsFail(session.lines[lineNo])
        /\ ~SingleExpr(session.lines[lineNo])) =>
        /\ result.kind = "compile"
        /\ result.reason = "chained"
        /\ steps = 0

\* The closure a call of callee runs in machine m, 0 if it runs none: the
\* closure itself, the closure of a bound method, the init closure of a
\* class.
TargetClos(m, callee) ==
    CASE callee.t = "clos" -> callee.n
      [] callee.t = "bound" -> m.bounds[callee.n].clos
      [] callee.t = "class" ->
            IF "init" \in DOMAIN m.classes[callee.n].methods
               /\ m.classes[callee.n].methods["init"].t = "clos"
            THEN m.classes[callee.n].methods["init"].n
            ELSE 0
      [] OTHER -> 0

\* The closure OpInvoke name runs on receiver this_: the field of that name
\* if there is one, else the method of the class.
InvokeTarget(m, this_, name) ==
    IF this_.t # "instance" THEN 0
    ELSE IF name \in DOMAIN m.instances[this_.n].fields
    THEN TargetClos(m, m.instances[this_.n].fields[name])
    ELSE IF name \in DOMAIN m.classes[m.instances[this_.n].class].methods
    THEN TargetClos(m, m.classes[m.instances[this_.n].class].methods[name])
    ELSE 0

\* The call of closure clos with argCount arguments fails in r, the machine
\* after the instruction, and pushes no frame.
ArityRejected(r, clos, argCount) ==
    LET arity == funs[closures[clos].fun].arity IN
    arity # argCount =>
        /\ r.panic = ""
        /\ r.err = "expected " \o ToString(arity) \o " arguments but got "
                    \o ToString(argCount)
        /\ Len(r.frames) = Len(frames)

\* C9: calling a closure with argCount # arity, directly, as a bound method,
\* through OpInvoke or as a class initializer, fails with 'expected <arity>
\* arguments but got <argCount>' and pushes no frame.
C9_ArityMismatch ==
    /\ AtOp(OpCall) =>
          LET m == Fetched(0)
              argCount == ReadByte(m)
              clos == TargetClos(m, peek(Skip(m, 1), argCount))
          IN clos # 0 => ArityRejected(ExecCall(m), clos, argCount)
    /\ AtOp(OpInvoke) =>
          LET m == Fetched(0)
              argCount == ReadByte(Skip(m, 1))
              clos == InvokeTarget(m, peek(Skip(m, 2), argCount), ReadConst(m).s)
          IN clos # 0 => ArityRejected(ExecInvoke(m), clos, argCount)
    /\ (phase = "idle" /\ lineNo = Len(session.lines)
          /\ \E route \in Routes \ {"noinit"} :
                \E arity \in 0..MaxArity : \E argCount \in 0..MaxArity :
                    /\ arity # argCount
                    /\ session = CallSession(route, arity, argCount)) =>
          /\ result.kind = "runtime"
          /\ frames = <<>>

\* A bound method of arity 2 called with one argument was rejected.
C9_Witness ==
    /\ session = CallSession("bound", 2, 1)
    /\ phase = "idle"
    /\ lineNo = 3
    /\ result.kind = "runtime"
    /\ result.reason = "expected 2 arguments but got 1"

\* The call of class with argCount arguments, the callee in slot base, from
\* machine m to machine r.
ClassCalled(m, r, class, argCount, base) ==
    LET methods == m.classes[class].methods
        inst == Len(m.instances) + 1
        msg == "expected 0 arguments but got " \o ToString(argCount)
    IN /\ r.panic = ""
       \* A fresh instance of the class replaces the callee.
       /\ Len(r.instances) = inst
       /\ r.instances[inst] = [class |-> class, fields |-> <<>>]
       /\ SubSeq(r.instances, 1, inst - 1) = m.instances
       /\ r.stack.len = m.stack.len
       /\ StackAt(r, base) = VInstance(inst)
       \* The arguments stay where they are.
       /\ \A i \in 1..argCount : StackAt(r, base + i) = StackAt(m, base + i)
       /\ IF "init" \in DOMAIN methods /\ methods["init"].t = "clos"
          THEN \* init runs with the instance in slot 0 and the arguments above.
               m.funs[m.closures[methods["init"].n].fun].arity = argCount =>
                  /\ r.err = ""
                  /\ Len(r.frames) = Len(m.frames) + 1
                  /\ Last(r.frames) =
                        [clos |-> methods["init"].n, ip |-> 0, base |-> base]
          ELSE /\ Len(r.frames) = Len(m.frames)
               /\ IF argCount # 0
                  THEN \* The reason, with or without a closing period.
                       r.err \in {msg, msg \o "."}
                  ELSE \* The instance is the result of the call.
                       /\ r.err = ""
                       /\ peek(r, 0) = VInstance(inst)

\* C10: calling a class puts a fresh instance in the callee slot; init, if
\* the class has one, runs with the same arguments and the instance in slot
\* 0; without init, arguments are an error 'expected 0 arguments but got N'
\* and a call without arguments leaves the instance as the result.
C10_ClassCall ==
    AtOp(OpCall) =>
        LET m == Skip(Fetched(0), 1)
            argCount == ReadByte(Fetched(0))
            callee == peek(m, argCount)
        IN callee.t = "class" =>
              ClassCalled(m, ExecCall(Fetched(0)), callee.n, argCount,
                          m.stack.len - argCount - 1)

\* K(1).n returned the 5 that init(p1) stored in the instance.
C10_Witness ==
    /\ session = CallSession("init", 1, 1)
    /\ phase = "idle"
    /\ lineNo = 2
    /\ result.kind = ""
    /\ result.val = VNum(5)
    /\ Len(instances) = 1
    /\ instances[1].class = 1

\* The frame that executes is a call of the init method of some class.
InInit ==
    /\ frames # <<>>
    /\ \E c \in 1..Len(classes) :
          /\ "init" \in DOMAIN classes[c].methods
          /\ classes[c].methods["init"] = VClos(Last(frames).clos)

\* The compile errors include one with this reason.
RaisedError(errors, reason) == \E i \in 1..Len(errors) : errors[i].Reason = reason

\* C11: an init whose body ends normally or in a bare return returns slot 0,
\* so calling the class evaluates to the new instance; a return with a value
\* directly inside init is the compile error 'can't return a value from an
\* initializer'.
C11_InitReturnsInstance ==
    \* Every OpReturn of an init frame returns what slot 0 holds.
    /\ (AtOp(OpReturn) /\ InInit /\ Len(frames) > 1) =>
          LET m == Fetched(0)
              r == ExecReturn(m)
          IN /\ r.panic = "" /\ r.err = ""
             /\ Len(r.frames) = Len(frames) - 1
             /\ r.stack.len = Last(frames).base + 1
             /\ peek(r, 0) = StackAt(m, Last(frames).base)
    /\ \A body \in InitReturnsThis :
          (session = InitSession(body) /\ phase = "idle" /\ lineNo = 2) =>
             /\ result.kind = ""
             /\ result.val = VInstance(1)
             /\ Len(instances) = 1
             /\ instances[1].class = 1
    /\ \A body \in InitReturnsValue :
          (session = InitSession(body) /\ phase = "idle" /\ lineNo >= 1) =>
             IF lineNo = 1
             THEN /\ result.kind = "compile"
                  /\ RaisedError(result.errors,
                                 "can't return a value from an initializer")
                  /\ steps = 0
             ELSE \* The class was never defined.
                  result.kind = "runtime" /\ instances = <<>>

\* K() evaluated to the instance that init() { return; } was run on.
C11_Witness ==
    /\ session = InitSession(<<"return", ";">>)
    /\ phase = "idle"
    /\ lineNo = 2
    /\ result.val = VInstance(1)
    /\ Len(instances) = 1

\* The call of bound method b with argCount arguments, the callee in slot
\* base, from machine m to machine r: the method runs with the instance b
\* remembers in slot 0.
BoundCalled(m, r, b, argCount, base) ==
    m.funs[m.closures[m.bounds[b].clos].fun].arity = argCount =>
        /\ r.panic = "" /\ r.err = ""
        /\ Len(r.frames) = Len(m.frames) + 1
        /\ Last(r.frames) = [clos |-> m.bounds[b].clos, ip |-> 0, base |-> base]
        /\ StackAt(r, base) = m.bounds[b].this
        /\ m.bounds[b].this.t = "instance"

\* The bound method OpGetProp makes when the name is a method and no field.
MethodRead ==
    AtOp(OpGetProp) =>
        LET m == Fetched(0)
            this_ == peek(m, 0)
            name == ReadConst(m).s
            r == ExecGetProp(m)
        IN (/\ this_.t = "instance"
            /\ name \notin DOMAIN instances[this_.n].fields
            /\ name \in DOMAIN classes[instances[this_.n].class].methods) =>
              /\ r.panic = "" /\ r.err = ""
              /\ Len(r.bounds) = Len(bounds) + 1
              /\ peek(r, 0) = VBoundMethod(Len(r.bounds))
              /\ Last(r.bounds) =
                    [this |-> this_,
                     clos |-> classes[instances[this_.n].class].methods[name].n]

\* Calls of a bound method, by OpCall and by OpInvoke through a field.
BoundMethodCall ==
    /\ AtOp(OpCall) =>
          LET m == Skip(Fetched(0), 1)
              argCount == ReadByte(Fetched(0))
              callee == peek(m, argCount)
          IN callee.t = "bound" =>
                BoundCalled(m, ExecCall(Fetched(0)), callee.n, argCount,
                            m.stack.len - argCount - 1)
    /\ AtOp(OpInvoke) =>
          LET m == Skip(Fetched(0), 2)
              name == ReadConst(Fetched(0)).s
              argCount == ReadByte(Skip(Fetched(0), 1))
              this_ == peek(m, argCount)
          IN (/\ this_.t = "instance"
              /\ name \in DOMAIN instances[this_.n].fields
              /\ instances[this_.n].fields[name].t = "bound") =>
                BoundCalled(m, ExecInvoke(Fetched(0)),
                            instances[this_.n].fields[name].n, argCount,
                            m.stack.len - argCount - 1)

\* Each call of BoundCalls answered with the name of instance a.
BoundCallsAnswer ==
    \A call_ \in BoundCalls :
        (session = BoundSession(call_) /\ phase = "idle" /\ lineNo = 4) =>
            /\ result.kind = ""
            /\ result.val.t = "str"
            /\ result.val.s = "a"

\* C12: reading a method through a property access yields a bound method
\* that remembers the instance it was read from, and never another one
\* afterwards; calling it, from a variable, a field or any call depth, runs
\* the method with that instance in slot 0.
C12_BoundMethodRemembersThis ==
    /\ [](MethodRead /\ BoundMethodCall /\ BoundCallsAnswer)
    /\ [][\A b \in 1..Len(bounds) : bounds'[b] = bounds[b]]_vars

\* The method read from a and called from a method of b answered "a".
C12_Witness ==
    /\ session = BoundSession(<<"b", ".", "run", "(", "m", ")">>)
    /\ phase = "idle"
    /\ lineNo = 4
    /\ result.val.s = "a"
    /\ Len(bounds) >= 1

\* C13: every break leaves the loop that encloses it most closely and
\* every continue goes to that loop's start, for every nesting of loops
\* within one function: each program of LoopPrograms compiles and prints
\* what those jumps make it print.
C13_BreakContinueTargets ==
    \A prog \in LoopPrograms :
        (session = LoopSession(prog) /\ lineNo = 1 /\ phase # "running") =>
            /\ phase = "idle"
            /\ result.kind = ""
            /\ printed = prog.out

\* C14: break and continue outside every loop of the function compiled,
\* also inside a function declared in a loop body, are the compile errors
\* 'expect 'break' in a loop' and 'expect 'continue' in a loop'; return at
\* top level is a compile error; return inside a function declared in a
\* loop body is accepted and returns from that function only.
C14_MisplacedJumps ==
    /\ \A prog \in MisplacedJumps : \A repl \in BOOLEAN :
          (/\ session = MisplacedSession(prog, repl)
           /\ lineNo = 1 /\ phase # "running") =>
             /\ phase = "idle"
             /\ result.kind = "compile"
             /\ RaisedError(result.errors, prog.reason)
             /\ steps = 0
    /\ (session = ReturnInLoopSession /\ lineNo >= 2 /\ phase # "running") =>
          /\ phase = "idle"
          /\ result.kind = ""
          /\ lineNo >= 3 => result.val = VNum(2)

\* The loop ran both rounds, calling each round a function that returns.
C14_Witness ==
    /\ session = ReturnInLoopSession
    /\ phase = "idle"
    /\ lineNo = 4
    /\ result.val = VNum(2)

\* C15: reading a local variable inside its own initializer is the compile
\* error 'can't read local variable in its own initializer', also when an
\* enclosing scope or the globals have a variable of that name; once its
\* initializer is compiled the local reads as any other.
C15_OwnInitializer ==
    /\ \A src \in OwnInitReads :
          (session = OwnInitSession(src) /\ lineNo = 2 /\ phase # "running") =>
             /\ phase = "idle"
             /\ result.kind = "compile"
             /\ RaisedError(result.errors,
                            "can't read local variable in its own initializer")
             /\ steps = 0
    /\ \A prog \in InitThenReads :
          (session = OwnInitSession(prog.src) /\ lineNo = 2 /\ phase # "running") =>
             /\ phase = "idle"
             /\ result.kind = ""
             /\ printed = prog.out

\* { var a = a; } was rejected though the global a exists.
C15_Witness ==
    /\ session = OwnInitSession(<<"{", "var", "a", "=", "a", ";", "}">>)
    /\ phase = "idle"
    /\ lineNo = 2
    /\ result.kind = "compile"
    /\ "a" \in DOMAIN globals

\* C16: declaring a local of the name of a local of the same block of the
\* same function, parameters counting as declared in the body's block, is
\* the compile error 'already a variable with this name in this scope'; in
\* a deeper block it is accepted and shadows the outer local until the
\* block ends.
C16_Redeclaration ==
    /\ \A src \in Redeclarations :
          (session = ScopeSession(src) /\ lineNo = 1 /\ phase # "running") =>
             /\ phase = "idle"
             /\ result.kind = "compile"
             /\ RaisedError(result.errors,
                            "already a variable with this name in this scope")
             /\ steps = 0
    /\ \A prog \in Shadowings :
          (session = ScopeSession(prog.src) /\ lineNo = 1 /\ phase # "running") =>
             /\ phase = "idle"
             /\ result.kind = ""
             /\ printed = prog.out

\* fun f(a) { var a; } was rejected.
C16_Witness ==
    /\ session = ScopeSession(<<"fun", "f", "(", "a", ")", "{", "var", "a", ";", "}">>)
    /\ phase = "idle"
    /\ lineNo = 1
    /\ result.kind = "compile"
    /\ RaisedError(result.errors, "already a variable with this name in this scope")

\* The name of function fun of funs.
NameOf(fun) == FunName(Machine(0), fun)

\* The reference the instruction at ip reads, if it is a Get instruction.
NextRef ==
    LET m == Fetched(0)
        op == ReadByte(Machine(0))
    IN IF op = OpGetGlobal THEN NameRef(op, 0, ReadConst(m).s)
       ELSE NameRef(op, ReadByte(m), "")

\* Pair i of the operands that follow the constant of the OpClos at ip.
ClosOperand(i) ==
    << ReadByte(Skip(Fetched(0), 2 * i - 1)), ReadByte(Skip(Fetched(0), 2 * i)) >>

\* What function fn of a program is expected to compile to holds of the
\* instruction run executes next.
CompiledAs(fn) ==
    /\ (/\ phase = "running"
        /\ NameOf(closures[Last(frames).clos].fun) = fn.name
        /\ ReadByte(Machine(0)) \in {OpGetLocal, OpGetUpval, OpGetGlobal}) =>
          NextRef \in fn.gets
    /\ (/\ AtOp(OpClos)
        /\ NameOf(ReadConst(Fetched(0)).n) = fn.name) =>
          /\ funs[ReadConst(Fetched(0)).n].upvalCount = Len(fn.caps)
          /\ \A i \in 1..Len(fn.caps) : ClosOperand(i) = fn.caps[i]

\* C17: a name in a function resolves to the local of that function declared
\* last under the name, else to the local of the nearest enclosing function
\* that has one, captured with isLocal = 1 by the function directly inside
\* and with isLocal = 0 by every function between, else to a global; a local
\* of the name declared later does not change a function compiled before;
\* each captured variable has one upvalue index per function.
C17_NameResolution ==
    \A prog \in NamePrograms :
        session = NameSession(prog) =>
            /\ \A i \in 1..Len(prog.fns) : CompiledAs(prog.fns[i])
            /\ phase # "crashed"
            /\ (phase = "idle" /\ lineNo >= 1) => result.kind = ""
            /\ (phase = "idle" /\ lineNo = 2) => result.val = VNum(prog.val)

\* inner, two functions below the x it returns, is being made a closure
\* with the upvalue 0 of mid.
C17_Witness ==
    /\ AtOp(OpClos)
    /\ NameOf(ReadConst(Fetched(0)).n) = "inner"
    /\ NameOf(closures[Last(frames).clos].fun) = "mid"
    /\ funs[ReadConst(Fetched(0)).n].upvalCount = 1
    /\ ClosOperand(1) = <<0, 0>>

\* C18: globals are looked up by name when the instruction runs, in a table
\* that lasts across the Interpret calls of one VM: a function reading a
\* global that is not defined yet compiles, and a call of it reads the value
\* the global has then, its latest definition or assignment.
C18_GlobalsLateBound ==
    \A prog \in GlobalPrograms :
        (session = GlobalSession(prog) /\ lineNo >= 1 /\ phase # "running") =>
            /\ phase = "idle"
            /\ result.kind = ""
            /\ result.val = prog.vals[lineNo]
            /\ (lineNo = Len(prog.lines)) => printed = prog.out
            /\ (lineNo = 1 /\ Len(prog.lines) = 7) => "g" \notin DOMAIN globals

\* f, compiled four Interpret calls earlier when g did not exist, reads g
\* after g was defined as 1 and assigned 2.
C18_Witness ==
    /\ lineNo = 5
    /\ "g" \in DOMAIN globals
    /\ AtOp(OpGetGlobal)
    /\ NameOf(closures[Last(frames).clos].fun) = "f"
    /\ ReadConst(Fetched(0)).s = "g"
    /\ globals["g"] = VNum(2)

\* The name the global instruction at ip has for operand.
GlobalName == ReadConst(Fetched(0)).s

\* OpGetGlobal and OpSetGlobal of a name globals lacks end the run with the
\* runtime error and leave globals as they are.
AbsentGlobalFails ==
    ((AtOp(OpGetGlobal) \/ AtOp(OpSetGlobal)) /\ GlobalName \notin DOMAIN globals) =>
        /\ phase' = "idle"
        /\ result'.kind = "runtime"
        /\ result'.reason = "undefined variable '" \o GlobalName \o "'"
        /\ globals' = globals

\* globals gets a new name from OpDefGlobal alone.
OnlyDefAdds ==
    DOMAIN globals' # DOMAIN globals =>
        /\ AtOp(OpDefGlobal)
        /\ DOMAIN globals' = DOMAIN globals \cup {GlobalName}

\* OpSetGlobal of a name globals has stores the top of the stack under it
\* and leaves the stack as it is.
SetGlobalStores ==
    (AtOp(OpSetGlobal) /\ GlobalName \in DOMAIN globals) =>
        /\ globals' = MapSet(globals, GlobalName, peek(Fetched(0), 0))
        /\ stack' = stack
        /\ mem' = mem
        /\ phase' = "running"

\* Every program of AbsentGlobals ends with undefined variable 'a', after
\* printing what its assignments answered, and a is still not a global.
AbsentGlobalsAnswer ==
    \A prog \in AbsentGlobals : \A repl \in BOOLEAN :
        (session = AbsentSession(prog, repl) /\ lineNo = 1 /\ phase # "running") =>
            /\ phase = "idle"
            /\ result.kind = "runtime"
            /\ result.reason = "undefined variable 'a'"
            /\ printed = prog.out
            /\ "a" \notin DOMAIN globals

\* C19: OpGetGlobal and OpSetGlobal on a name absent from globals fail with
\* the runtime error undefined variable '<name>' and leave globals
\* unchanged, so that an assignment never creates a global; only OpDefGlobal
\* adds a name; OpSetGlobal on an existing name stores the value without
\* popping it.
C19_AbsentGlobals ==
    /\ []AbsentGlobalsAnswer
    /\ [][AbsentGlobalFails /\ OnlyDefAdds /\ SetGlobalStores]_vars

\* fun f() { a = 2; } f(); failed in f with f the one global added.
C19_Witness ==
    /\ session = AbsentSession([src |-> <<"fun", "f", "(", ")", "{", "a", "=", "2", ";", "}", "f", "(", ")", ";">>,
                                out |-> <<>>], FALSE)
    /\ phase = "idle"
    /\ lineNo = 1
    /\ result.kind = "runtime"
    /\ result.reason = "undefined variable 'a'"
    /\ DOMAIN globals = {"clock", "f"}

\* The operands of the property instruction at ip: its name, the value on
\* top of the stack and the one below it.
PropName == ReadConst(Fetched(0)).s

Top == peek(Machine(0), 0)

Below == peek(Machine(0), 1)

\* The run ended with this runtime error.
Failed(reason) ==
    /\ phase = "idle"
    /\ result.kind = "runtime"
    /\ result.reason = reason

\* The step ends the run with this runtime error.
Fails(reason) ==
    /\ phase' = "idle"
    /\ result'.kind = "runtime"
    /\ result'.reason = reason

\* OpGetProp replaces the instance on top of the stack by its field, else
\* by a new bound method of that instance and the method of its class, and
\* fails if it has neither or is no instance.
GetPropStep ==
    AtOp(OpGetProp) =>
        IF Top.t # "instance"
        THEN Fails("only instances have properties") /\ bounds' = bounds
        ELSE IF PropName \in DOMAIN instances[Top.n].fields
        THEN /\ phase' = "running"
             /\ stack'.len = stack.len
             /\ Top' = instances[Top.n].fields[PropName]
             /\ bounds' = bounds
        ELSE IF PropName \in DOMAIN classes[instances[Top.n].class].methods
        THEN /\ phase' = "running"
             /\ stack'.len = stack.len
             /\ Top' = VBoundMethod(Len(bounds) + 1)
             /\ bounds' = Append(bounds,
                    [this |-> Top,
                     clos |-> classes[instances[Top.n].class].methods[PropName].n])
        ELSE Fails("undefined property '" \o PropName \o "'") /\ bounds' = bounds

\* OpSetProp stores the top of the stack in the field of the instance below
\* it, removes the instance and leaves the value on top; below a value that
\* is no instance it fails and writes nothing.
SetPropStep ==
    AtOp(OpSetProp) =>
        IF Below.t # "instance"
        THEN /\ Fails("only instances have fields")
             /\ instances' = instances
             /\ globals' = globals
        ELSE /\ phase' = "running"
             /\ instances' = [instances EXCEPT ![Below.n].fields =
                                  MapSet(@, PropName, Top)]
             /\ stack'.len = stack.len - 1
             /\ Top' = Top

\* Every session of PropPrograms answers line by line what it is expected
\* to, and its last line fails with the expected error.
PropProgramsAnswer ==
    \A prog \in PropPrograms :
        (session = PropSession(prog) /\ lineNo >= 1 /\ phase # "running") =>
            /\ phase = "idle"
            /\ IF lineNo = Len(prog.lines)
               THEN Failed(prog.reason)
               ELSE /\ result.kind = ""
                    /\ String(Machine(0), result.val) = prog.shows[lineNo]

\* C20: OpGetProp on an instance yields the field of that name if present,
\* otherwise a bound method for the class method of that name, otherwise
\* fails with undefined property; on a non-instance it fails with only
\* instances have properties.  OpSetProp on an instance stores the value in
\* the field, removes the instance from the stack and leaves the value on
\* top; on a non-instance it fails with only instances have fields and
\* writes nothing.
C20_PropertyAccess ==
    /\ []PropProgramsAnswer
    /\ [][GetPropStep /\ SetPropStep]_vars

\* foo.m answers the field m set to 5 on an instance whose class has a
\* method m.
C20_Witness ==
    /\ Len(session.lines) = 15
    /\ lineNo = 14
    /\ phase = "idle"
    /\ result.val = VNum(5)
    /\ Len(instances) = 1
    /\ "m" \in DOMAIN instances[1].fields
    /\ "m" \in DOMAIN classes[instances[1].class].methods

\* The number of newlines among the runes i .. j-1 of src (from 0).
RECURSIVE Newlines(_, _, _)
Newlines(src, i, j) ==
    IF i >= j THEN 0
    ELSE (IF src[i + 1] = "\n" THEN 1 ELSE 0) + Newlines(src, i + 1, j)

\* The index of the first quote of src at or after i, Len(src) if none.
ClosingQuote(src, i) == AdvanceWhile(src, i, {"\""}, FALSE)

\* The last ScanToken began at the opening quote of a string literal.
InStringLiteral ==
    /\ scan.calls >= 1
    /\ scan.s.start < Len(scan.s.src)
    /\ scan.s.src[scan.s.start + 1] = "\""

\* C21: ScanToken terminates on every input: on a string literal it counts
\* no more lines than the literal has newlines, returns a literal with k
\* newlines before its closing quote as one Str token after advancing the
\* line counter by k, and returns the error token unterminated string for
\* a literal with no closing quote before the end of the input.
C21_StringLiteralScan ==
    LET s == scan.s
        q == ClosingQuote(s.src, s.start + 1)
    IN InStringLiteral =>
        /\ s.line - scan.line0 <= Newlines(s.src, s.start, Len(s.src))
        /\ (~scan.inString /\ q < Len(s.src)) =>
              /\ scan.tk = Token("TStr", scan.line0 + Newlines(s.src, s.start, q),
                                 Text(SubSeq(s.src, s.start + 1, q + 1)))
              /\ s.curr = q + 1
        /\ (~scan.inString /\ q >= Len(s.src)) =>
              /\ scan.tk.Type = "TErr"
              /\ scan.tk.Runes = "unterminated string"

\* The same for the string literals that have no newline.
OneLineLiteralsScan ==
    (InStringLiteral /\ Newlines(scan.s.src, scan.s.start, Len(scan.s.src)) = 0)
        => C21_StringLiteralScan

\* Where and why the errors were reported.
Sites(errors) ==
    {[At |-> errors[i].At, Reason |-> errors[i].Reason] : i \in 1..Len(errors)}

\* The compile errors of a program of PanicPrograms have the first error of
\* each declaration and none of those that follow it.
PanicModeHolds(prog) ==
    (session = PanicSession(prog) /\ lineNo = 1 /\ phase # "running") =>
        /\ phase = "idle"
        /\ result.kind = "compile"
        /\ prog.reported \subseteq Sites(result.errors)
        /\ prog.dropped \cap Sites(result.errors) = {}

\* C22: after the compiler reports an error every further error report is
\* dropped until sync runs; when sync returns the parser is out of panic
\* mode, so that the first error of the next declaration is reported.
C22_PanicMode == \A prog \in PanicPrograms : PanicModeHolds(prog)

\* The same for the programs in which sync skips no error token.
PanicModeWithoutErrorTokens ==
    \A prog \in PanicPrograms :
        (\A i \in 1..Len(prog.src) : prog.src[i] # "@") => PanicModeHolds(prog)

\* The last line of a session of EqPrograms answers what is expected.
EqualityHolds(prog) ==
    (/\ session = EqSession(prog)
     /\ lineNo = Len(prog.lines)
     /\ phase # "running") =>
        /\ phase = "idle"
        /\ result.kind = ""
        /\ result.val = VBool(prog.val)

\* A string literal is among the lexemes of a session.
HasStrings(prog) ==
    \E i \in 1..Len(prog.lines) : \E j \in 1..Len(prog.lines[i]) :
        SubSeq(prog.lines[i][j], 1, 1) = "\""

\* C23: VEq is true for nil and nil, compares booleans and numbers by value
\* and strings by content, however the strings were made, compares other
\* objects by identity, and is false without error for operands of
\* different types.
C23_ValueEquality == \A prog \in EqPrograms : EqualityHolds(prog)

\* The same for the comparisons in which no string takes part.
EqualityWithoutStrings ==
    \A prog \in EqPrograms : ~HasStrings(prog) => EqualityHolds(prog)

\* How an instruction without operand reads in postfix.
OpText(op) ==
    CASE op = OpNil -> "nil" [] op = OpTrue -> "true" [] op = OpFalse -> "false"
      [] op = OpEqual -> "==" [] op = OpGreater -> ">" [] op = OpLess -> "<"
      [] op = OpNot -> "!" [] op = OpNeg -> "neg" [] op = OpAdd -> "+"
      [] op = OpSub -> "-" [] op = OpMul -> "*" [] op = OpDiv -> "/"
      [] op = OpReturn -> "return" [] OTHER -> "?"

\* The instructions of a chunk from offset i on, in postfix.
RECURSIVE Postfix(_, _)
Postfix(ch, i) ==
    IF i >= Len(ch.code) THEN <<>>
    ELSE IF ch.code[i + 1] = OpConst
    THEN <<NumString(ch.consts[ch.code[i + 2] + 1])>> \o Postfix(ch, i + 2)
    ELSE IF ch.code[i + 1] = OpGetGlobal
    THEN <<ch.consts[ch.code[i + 2] + 1].s>> \o Postfix(ch, i + 2)
    ELSE <<OpText(ch.code[i + 1])>> \o Postfix(ch, i + 1)

\* C24: for expressions built from literals, variables, unary - and !,
\* binary operators and parentheses, the instructions are emitted in the
\* order of the parse in which an operator of a higher level of None <
\* Assign < Or < And < Equal < Comp < Term < Factor < Unary < Call binds
\* tighter than one of a lower level and binary operators of one level
\* associate to the left.
C24_PrecedenceOrder ==
    \A prog \in ExprPrograms :
        (session = ExprSession(prog) /\ lineNo = 1) =>
            /\ phase # "crashed"
            /\ result.kind # "compile"
            /\ (phase = "running" /\ steps = 0) =>
                  /\ mode = "expr"
                  /\ Postfix(chunk(Machine(0)), 0) = prog.code \o <<"nil", "return">>

\* 1 == 2 < 3 + 4 * - 5 was compiled, one operator of each level.
C24_Witness ==
    /\ session = ExprSession([src |-> <<"1", "==", "2", "<", "3", "+", "4", "*", "-", "5">>,
                              code |-> <<"1", "2", "3", "4", "5", "neg", "*", "+", "<", "==">>])
    /\ lineNo = 1
    /\ phase = "running"
    /\ steps = 0
    /\ Len(chunk(Machine(0)).code) = 17

\* C25: when a block ends the compiler emits exactly one instruction for
\* each local declared in the block, OpCloseUpval for a local a closure
\* captured and OpPop otherwise, the last declared first, and removes
\* exactly those locals from the locals of the compile frame.
C25_ScopeExit ==
    \A prog \in BlockPrograms :
        (session = BlockSession(prog) /\ lineNo = 1) =>
            /\ phase # "crashed"
            /\ result.kind # "compile"
            /\ \A c \in prog.chunks :
                  \E i \in 1..Len(funs) :
                      /\ funs[i].name = c.name
                      /\ funs[i].chunk.code = c.code

\* The block with locals a, b, c and a closure over a and c was compiled:
\* four instructions at its end, two of each kind.
C25_Witness ==
    /\ \E prog \in BlockPrograms :
          /\ session = BlockSession(prog)
          /\ Len(prog.src) = 28
    /\ lineNo = 1
    /\ phase = "idle"
    /\ \E i \in 1..Len(funs) :
          /\ funs[i].name = ""
          /\ SubSeq(funs[i].chunk.code, 13, 16)
                 = <<OpPop, OpCloseUpval, OpPop, OpCloseUpval>>

\* The instruction at ip moves ip: an OpJump, an OpLoop, or an OpJumpUnless
\* on a falsey value.
Jumping ==
    \/ AtOp(OpJump)
    \/ AtOp(OpLoop)
    \/ AtOp(OpJumpUnless) /\ ~VTruthy(Top)

\* Every jump a program of JumpPrograms executes lands on the offset its
\* operand offset is listed with, and an OpJumpUnless on a truthy value
\* goes on after its operand.
JumpsLand ==
    \A prog \in JumpPrograms :
        (session = JumpSession(prog) /\ lineNo = 1 /\ steps < MaxSteps) =>
            /\ Jumping =>
                  \E j \in prog.jumps :
                      /\ j.at = ip(Machine(0)) + 1
                      /\ phase' = "running"
                      /\ frames'[1].ip = j.to
            /\ (AtOp(OpJumpUnless) /\ VTruthy(Top)) =>
                  frames'[1].ip = ip(Machine(0)) + 3

\* A Parser compiling a script whose chunk holds n bytes of code.
ParserAt(n) ==
    LET p == wrapCompiler(NewParser(<<>>, 0), "FScript") IN
    SetCur(p, [Cur(p) EXCEPT !.fun.chunk.code = [i \in 1..n |-> OpNil] \o <<>>,
                             !.fun.chunk.lines = [i \in 1..n |-> 1] \o <<>>])

\* The Parser after emitJump at the end of n0 bytes of code, n more bytes,
\* and patchJump of that jump.
Patched(n0, n) ==
    LET p == emitJump(ParserAt(n0), OpJump)
        c == Cur(p)
    IN patchJump(SetCur(p, [c EXCEPT
                     !.fun.chunk.code = @ \o [i \in 1..n |-> OpNil],
                     !.fun.chunk.lines = @ \o [i \in 1..n |-> 1]]),
                 JumpOffset(ParserAt(n0)))

\* Where the VM is after the jump or loop whose operand is at offset o of
\* the chunk p compiles.
Lands(p, o) ==
    LET m == [funs |-> <<[chunk |-> currChunk(p)]>>,
              closures |-> <<[fun |-> 1]>>,
              frames |-> <<[clos |-> 1, ip |-> o]>>]
    IN IF chunk(m).code[o] = OpLoop
       THEN ip(Skip(m, 2 - ReadShort(m)))
       ELSE ip(Skip(m, 2 + ReadShort(m)))

\* Distances around one byte and around the two-byte limit.
Distances == {0, 1, 255, 256, 257, 65534, 65535}

\* A forward jump over n bytes lands on the length of the code at patchJump
\* and a loop lands on its start, up to a distance of 65535; above it the
\* compiler panics.
LongJumps ==
    /\ \A n0 \in {0, 5}, n \in Distances :
          /\ Patched(n0, n).crash = ""
          /\ Lands(Patched(n0, n), n0 + 1) = n0 + 3 + n
    /\ \A n \in {65536, 65537, 70000} :
          Patched(0, n).crash = "too much code to jump over"
    /\ \A start \in {0, 5}, n \in Distances \ {0, 1} :
          LET p == emitLoop(ParserAt(start + n - 3), start) IN
          /\ p.crash = ""
          /\ Lands(p, start + n - 2) = start
    /\ \A n \in {65536, 65537, 70000} :
          emitLoop(ParserAt(n - 3), 0).crash = "loop body too large"

\* C26: the VM executing a forward jump emitted by emitJump and patched
\* when the code length is L sets ip to exactly L, the VM executing the
\* OpLoop of emitLoop(start) sets ip to exactly start, and a distance above
\* 65535 aborts the compilation instead of being truncated.
C26_JumpTargets ==
    /\ [][JumpsLand]_vars
    /\ [](\A prog \in JumpPrograms :
             (session = JumpSession(prog) /\ lineNo = 1) =>
                 /\ phase # "crashed"
                 /\ result.kind = ""
                 /\ (phase = "idle" /\ Len(prog.src) = 10) => LongJumps)

\* The for loop ran twice and its exit jump has landed behind the loop.
C26_Witness ==
    /\ \E prog \in JumpPrograms :
          /\ session = JumpSession(prog)
          /\ Head(prog.src) = "for"
    /\ lineNo = 1
    /\ phase = "running"
    /\ Len(printed) = 2
    /\ frames[1].ip = 31

\* C27: an = behind an expression that is not a variable or a property
\* access parsed at assignment precedence is reported as the compile error
\* 'invalid assignment target', at the =, and a = b = c compiles as the
\* assignment of b = c to a, with the value assigned as its value.
C27_AssignmentTarget ==
    \A prog \in AssignPrograms :
        (session = AssignSession(prog) /\ lineNo = 1) =>
            /\ phase # "crashed"
            /\ prog.ok =>
                  /\ result.kind = ""
                  /\ phase = "idle" => printed = prog.out
            /\ ~prog.ok =>
                  /\ phase = "idle"
                  /\ result.kind = "compile"
                  /\ result.errors = <<[Line |-> 1, At |-> "=",
                                        Reason |-> "invalid assignment target"]>>

\* var a; var b; var c; a + b = c; was refused.
C27_Witness ==
    /\ \E prog \in AssignPrograms :
          /\ session = AssignSession(prog)
          /\ ~prog.ok
          /\ Len(prog.src) = 15
          /\ prog.src[11] = "+"
    /\ lineNo = 1
    /\ phase = "idle"
    /\ result.kind = "compile"

\* C28: every chunk has as many lines as bytes of code, whatever Write,
\* emitBytes, emitJump, patchJump and emitLoop produced it.
C28_LinesMatchCode ==
    \A i \in 1..Len(funs) :
        Len(funs[i].chunk.lines) = Len(funs[i].chunk.code)

\* The for loop was compiled: its chunk has two patched jumps and two loops.
C28_Witness ==
    /\ \E prog \in JumpPrograms :
          /\ session = JumpSession(prog)
          /\ Head(prog.src) = "for"
    /\ lineNo = 1
    /\ \E i \in 1..Len(funs) :
          /\ Len(funs[i].chunk.code) = 35
          /\ funs[i].chunk.code[23] = OpLoop
          /\ funs[i].chunk.code[29] = OpLoop
          /\ funs[i].chunk.code[8] = OpJumpUnless
          /\ funs[i].chunk.code[12] = OpJump

\* A compile frame of a function, in a block, with nl locals (the reserved
\* slot 0 among them; local i, of slot i - 1, is named by the numeral of i)
\* and nu upvalues.
FrameAt(nl, nu) ==
    LET p == wrapCompiler(NewParser(<<>>, 0), "FFun") IN
    SetCur(p, [Cur(p) EXCEPT
        !.depth = 1,
        !.fun.upvalCount = nu,
        !.locals = [i \in 1..nl |-> Local(Token("TIdent", 1, ToString(i)), 1)]
                       \o <<>>,
        !.upvals = [i \in 1..nu |-> Upval(TRUE, i)] \o <<>>])

\* The name of a variable that is not declared.
NewName == Token("TIdent", 1, "x")

\* At the limits: the 256th local is added and read with slot 255 and a
\* 257th aborts; the 255th upvalue is added with index 254, a full frame
\* still finds an upvalue it has, and one more upvalue aborts.
AtTheLimits ==
    /\ addLocal(FrameAt(MaxUint8, 0), NewName).crash = ""
    /\ Len(Cur(addLocal(FrameAt(MaxUint8, 0), NewName)).locals) = MaxUint8 + 1
    /\ LET p == namedVar(FrameAt(MaxUint8 + 1, 0),
                         Token("TIdent", 1, ToString(MaxUint8 + 1)), FALSE)
       IN /\ p.crash = ""
          /\ currChunk(p).code = <<OpGetLocal, MaxUint8>>
    /\ addLocal(FrameAt(MaxUint8 + 1, 0), NewName).crash
           = "too many variables in function"
    /\ Cur(addLocal(FrameAt(MaxUint8 + 1, 0), NewName)).locals
           = Cur(FrameAt(MaxUint8 + 1, 0)).locals
    /\ LET a == addUpval(Cur(FrameAt(1, MaxUint8 - 1)), Upval(TRUE, MaxUint8))
       IN /\ a.crash = ""
          /\ a.idx = MaxUint8 - 1
          /\ Len(a.c.upvals) = MaxUint8
    /\ LET a == addUpval(Cur(FrameAt(1, MaxUint8)), Upval(TRUE, MaxUint8))
       IN /\ a.crash = ""
          /\ a.idx = MaxUint8 - 1
          /\ Len(a.c.upvals) = MaxUint8
    /\ LET a == addUpval(Cur(FrameAt(1, MaxUint8)), Upval(FALSE, 0))
       IN /\ a.crash = "too many closure variables in function"
          /\ a.c = Cur(FrameAt(1, MaxUint8))

\* C29: a compile frame never has more than 256 locals or 256 upvalues, and
\* adding a local or an upvalue beyond the limit aborts the compilation
\* instead of emitting a slot or an upvalue index above one byte: every
\* byte of every chunk is at most 255, the last local that fits is read
\* with slot 255 and the last upvalue that fits has index 254.
C29_FrameLimits ==
    /\ \A i \in 1..Len(funs) :
          /\ funs[i].upvalCount <= MaxUint8 + 1
          /\ \A k \in 1..Len(funs[i].chunk.code) :
                funs[i].chunk.code[k] \in 0..MaxUint8
    /\ (lineNo = 1 /\ phase = "idle" /\ session \in NameSessions) => AtTheLimits

\* A program capturing two variables of two functions has run, and the
\* limits were tried.
C29_Witness ==
    /\ session \in NameSessions
    /\ lineNo = 1
    /\ phase = "idle"
    /\ \E i \in 1..Len(funs) : funs[i].upvalCount = 2

\* The line of a session of TracePrograms fails: run returns a runtime
\* error.
TraceLineFails(prog) ==
    /\ session = TraceSession(prog)
    /\ lineNo = Len(prog.lines)
    /\ phase = "running"
    /\ Fails(result'.reason)

\* When the last line of a session of TracePrograms fails, depth frames are
\* active.
FramesAtError ==
    [][\A prog \in TracePrograms :
          TraceLineFails(prog) => Len(frames) = prog.depth]_vars

\* C30: in the REPL, when a line fails with a runtime error raised inside
\* nested calls, the call trace logged for the line (callTrace, called by
\* the REPL once Interpret has returned the error) has one entry for each
\* call frame that was active when the error was raised.
C30_CallTrace ==
    \A prog \in TracePrograms :
        (/\ session = TraceSession(prog)
         /\ lineNo = Len(prog.lines)
         /\ phase = "idle"
         /\ result.kind = "runtime") =>
            Len(callTrace) = prog.depth

\* The call trace the REPL logs for a failed line is empty.
LoggedTraceIsEmpty ==
    (session.repl /\ phase = "idle" /\ result.kind = "runtime") =>
        callTrace = <<>>

\* The values on the stack of machine m, the bottom first.
StackValues(m) == [i \in 1..m.stack.len |-> StackAt(m, i - 1)]

RECURSIVE PushAll(_, _)
PushAll(m, vals) ==
    IF vals = <<>> THEN m ELSE PushAll(push(m, Head(vals)), Tail(vals))

\* The arguments of the OpInvoke machine m has fetched.
InvokeArgCount(m) == ReadByte(Skip(m, 1))

\* The machine after OpGetProp on the receiver and then OpCall on the
\* arguments, from the machine m that has fetched an OpInvoke: the operands
\* of OpInvoke are the operand of OpGetProp and the operand of OpCall.
GetPropThenCall(m) ==
    LET n == InvokeArgCount(m)
        args == [i \in 1..n |-> peek(m, n - i)]
        recv == [m EXCEPT !.stack.len = @ - n,
                          !.slotIds = SubSeq(@, 1, Len(@) - n)]
    IN ExecCall(PushAll(ExecGetProp(recv), args))

\* Two machines with the same outcome: the same runtime error, or else the
\* same stack, frames, instances and globals.
SameOutcome(a, b) ==
    /\ a.panic = b.panic
    /\ a.err = b.err
    /\ (a.panic = "" /\ a.err = "") =>
          /\ StackValues(a) = StackValues(b)
          /\ a.frames = b.frames
          /\ a.instances = b.instances
          /\ a.globals = b.globals
          /\ a.closures = b.closures

\* C31: on an instance, OpInvoke has the same result, the same stack and
\* the same outcome as OpGetProp on the receiver followed by OpCall on the
\* same arguments, for a field and for a method; and o.name(args) ends as
\* (o.name)(args) does.
C31_InvokeAsGetPropCall ==
    /\ (/\ AtOp(OpInvoke)
        /\ peek(Machine(0), InvokeArgCount(Fetched(0))).t = "instance") =>
          SameOutcome(ExecInvoke(Fetched(0)), GetPropThenCall(Fetched(0)))
    /\ \A prog \in InvokePrograms :
          ((session = InvokeSession(prog) \/ session = GetCallSession(prog))
              /\ lineNo = 1) =>
              /\ phase # "crashed"
              /\ result.kind # "compile"
              /\ phase = "idle" =>
                    /\ printed = prog.out
                    /\ result.reason = prog.reason

\* An OpInvoke is about to call a field that shadows a method.
C31_Witness ==
    /\ AtOp(OpInvoke)
    /\ ReadConst(Fetched(0)).s = "m"
    /\ LET this_ == peek(Machine(0), InvokeArgCount(Fetched(0))) IN
       /\ this_.t = "instance"
       /\ "m" \in DOMAIN instances[this_.n].fields
       /\ "m" \in DOMAIN classes[instances[this_.n].class].methods

\* The cells of the openUpvals list from cell u on, at most n of them.
RECURSIVE OpenSeqFrom(_, _)
OpenSeqFrom(u, n) ==
    IF u = 0 \/ n = 0 THEN <<>> ELSE <<u>> \o OpenSeqFrom(upvals[u].next, n - 1)

OpenSeq == OpenSeqFrom(openUpvals, Len(upvals))

\* The openUpvals list is strictly descending by idx.
OpenUpvalsDescend ==
    \A k \in 1..(Len(OpenSeq) - 1) :
        upvals[OpenSeq[k]].idx > upvals[OpenSeq[k + 1]].idx

\* No variable has two cells: captureUpval found the cell of a variable
\* that was captured before.
OneCellPerVariable ==
    \A u, v \in 1..Len(upvals) :
        upvals[u].org = upvals[v].org => u = v

\* C32: at every instruction boundary the openUpvals list is strictly
\* descending by idx, so it has at most one cell for a stack index, and
\* captureUpval returns the cell in the list when the slot was captured
\* before: no variable gets a second cell.
C32_OpenUpvalsSorted ==
    /\ OpenUpvalsDescend
    /\ OneCellPerVariable

\* Without OpSetUpval the list stays descending.
DescendUnlessSetUpval ==
    [][(OpenUpvalsDescend /\ ~AtOp(OpSetUpval)) => OpenUpvalsDescend']_vars

\* In a session of prog, at every marked statement of f the stack holds as
\* many values above the frame base as the compiler has locals in scope,
\* and the program prints what it prints when every local is read from
\* the slot of its index.
SlotsMatch(prog) ==
    (session = SlotSession(prog) /\ lineNo = 1) =>
        /\ phase # "crashed"
        /\ result.kind = ""
        /\ (phase = "running" /\ funs[closures[Last(frames).clos].fun].name = "f") =>
              \A mk \in prog.marks :
                  Last(frames).ip = mk.at =>
                      stack.len - Last(frames).base = mk.locals
        /\ phase = "idle" => printed = prog.out

\* C33: at every statement boundary inside a function body, on every path,
\* those taken by break and continue among them, the number of values on
\* the stack above the frame base equals the number of locals in scope at
\* compile time, so OpGetLocal s and OpSetLocal s access the variable of
\* index s.
C33_StackMatchesLocals == \A prog \in SlotPrograms : SlotsMatch(prog)

\* The same where no break or continue leaves a block with locals.
StackMatchesLocalsWithoutJumpsOut ==
    \A prog \in SlotPrograms : ~prog.jumpsOut => SlotsMatch(prog)

\* The program of a session compiles and prints what it is to print.
LoopCompilesAndRuns(prog) ==
    (session = NestSession(prog) /\ lineNo = 1) =>
        /\ phase # "crashed"
        /\ result.kind = ""
        /\ phase = "idle" => printed = prog.out

\* C34: break and continue are accepted at every position of the body of a
\* loop, also behind an inner loop that has ended, and a loop whose body
\* contains another loop compiles, its back-jump going to its own start.
C34_LoopsNest == \A prog \in NestPrograms : LoopCompilesAndRuns(prog)

\* The same for loops without a loop in their body.
LoopsWithoutInnerLoop ==
    \A prog \in NestPrograms : ~prog.nested => LoopCompilesAndRuns(prog)

\* Compile ended and returned a compile error with at least one entry, and
\* nothing ran.
Rejected(prog) ==
    (session = MalformedSession(prog) /\ lineNo = 1) =>
        /\ phase = "idle"
        /\ result.kind = "compile"
        /\ result.errors # <<>>
        /\ steps = 0

\* C35: Compile ends for every source with a function or a compile error:
\* malformed input, a missing or wrong class name, method name or property
\* name among it, is reported as a compile error and never crashes the
\* compiler.
C35_MalformedIsReported == \A prog \in MalformedPrograms : Rejected(prog)

\* The same for what is malformed elsewhere than in such a name or in a
\* string literal left open before a line break.
MalformedElsewhereIsReported ==
    \A prog \in MalformedPrograms \ UnclosedBeforeLineBreak :
        ~prog.name => Rejected(prog)

\* Interpret returns for every line of a session of StringPrograms, and
\* the session prints what it is to print.
StringsRun(prog) ==
    (session = StringSession(prog) /\ phase # "running") =>
        /\ phase = "idle"
        /\ lineNo = Len(prog.lines) => printed = prog.out

StringLiteralsRun == \A prog \in StringPrograms : StringsRun(prog)

\* The same for the string literals without a line break.
OneLineLiteralsRun ==
    \A prog \in StringPrograms : ~prog.breaks => StringsRun(prog)

\* Interpret is inside a Compile that does not return; the VM is as NewVM
\* made it.
CompileDoesNotReturn ==
    /\ phase = "scanning"
    /\ lineNo = 1
    /\ stack.len = 0
    /\ printed = <<>>

\* The values of the stack, bottom first.
StackNow == StackValues(Machine(0))

\* The stack indices of the cells in the openUpvals list.
OpenIdxs == {upvals[OpenSeq[k]].idx : k \in 1..Len(OpenSeq)}

\* The operand of the OpCall at ip and the callee it finds on the stack.
CallArgCount == ReadByte(Fetched(0))

Callee == peek(Fetched(0), CallArgCount)

\* OpCall on a closure that takes CallArgCount parameters.
CallsClos ==
    /\ AtOp(OpCall)
    /\ Callee.t = "clos"
    /\ funs[closures[Callee.n].fun].arity = CallArgCount
    /\ steps' = steps + 1

\* OpCall on a closure leaves the stack alone, moves the caller past the
\* instruction and pushes a frame whose base is the callee slot.
CallPushesFrame ==
    CallsClos =>
        /\ StackNow' = StackNow
        /\ frames' = Append([frames EXCEPT ![Len(frames)].ip = @ + 2],
                            [clos |-> Callee.n, ip |-> 0,
                             base |-> stack.len - CallArgCount - 1])

\* OpReturn of a called function.
ReturnsToCaller ==
    /\ AtOp(OpReturn)
    /\ Len(frames) >= 2
    /\ steps' = steps + 1

\* OpReturn drops the frame, leaves the slots below the callee slot alone
\* and leaves the returned value in the callee slot, on top of the stack.
ReturnRestoresCaller ==
    ReturnsToCaller =>
        LET base == Last(frames).base IN
        /\ phase' = "running"
        /\ frames' = Front(frames)
        /\ Len(StackNow') = base + 1
        /\ SubSeq(StackNow', 1, base) = SubSeq(StackNow, 1, base)
        /\ StackNow'[base + 1] = Last(StackNow)

\* OpReturn leaves no cell with idx >= base in the openUpvals list.
ReturnClosesUpvals ==
    ReturnsToCaller => \A i \in OpenIdxs' : i < Last(frames).base

\* While a function runs, the frames below its own and the stack slots
\* below its callee slot stay as they are.
CallerUntouched ==
    (phase = "running" /\ phase' = "running") =>
        /\ \A i \in 1..(Len(frames) - 1) :
               i <= Len(frames') => frames'[i] = frames[i]
        /\ \A i \in 1..Last(frames).base :
               i <= Len(StackNow') => StackNow'[i] = StackNow[i]

\* C36: OpCall on a closure and the matching OpReturn leave every stack
\* slot below the callee slot unchanged, remove the callee, its arguments
\* and the callee's locals and temporaries, leave the returned value in the
\* callee slot, close every open upvalue with idx >= the callee's base, and
\* resume the caller with its closure and base unchanged at the instruction
\* after OpCall.
C36_CallReturn ==
    [][/\ CallPushesFrame
       /\ ReturnRestoresCaller
       /\ ReturnClosesUpvals
       /\ CallerUntouched]_vars

\* The same without the closing of the upvalues.
CallReturnFrames ==
    [][CallPushesFrame /\ ReturnRestoresCaller /\ CallerUntouched]_vars

\* run returns a RuntimeError from the instruction at ip.
RunFails ==
    /\ phase = "running"
    /\ phase' = "idle"
    /\ result'.kind = "runtime"

\* The line the compiler recorded for the byte at offset o of the chunk
\* that is running.
LineOf(o) == chunk(Machine(0)).lines[o + 1]

\* C37: a RuntimeError returned from run carries the source line of the
\* instruction that failed: lines[offset of its opcode byte].
C37_ErrorLine == [][RunFails => result'.line = LineOf(ip(Machine(0)))]_vars

\* The line is that of the byte ip has reached, after the opcode and the
\* operands read so far; the OpReturn of the script has dropped its frame
\* and leaves the line 0.
ErrorLineAfterOperands ==
    [][RunFails =>
         IF AtOp(OpReturn) THEN result'.line = 0
         ELSE \E k \in 1..3 :
                 /\ ip(Machine(0)) + k < Len(chunk(Machine(0)).code)
                 /\ result'.line = LineOf(ip(Machine(0)) + k)]_vars

\* A statement that ends in the line of the failing token reports that
\* line.
ErrorLineOfWholeStatement ==
    \A prog \in ErrLinePrograms :
        (session = ErrLineSession(prog) /\ lineNo = 1 /\ phase = "idle"
         /\ ~prog.split) =>
            result.kind = "runtime" /\ result.line = prog.line

\* In a statement that goes on in a later line, it is a later line.
ErrorLineOfSplitStatement ==
    \A prog \in ErrLinePrograms :
        (session = ErrLineSession(prog) /\ lineNo = 1 /\ phase = "idle"
         /\ prog.split) =>
            result.kind = "runtime" /\ result.line > prog.line

\* What a runtime error leaves: the stack and the frames are empty, the
\* globals and the objects are those the failing instruction found (it may
\* have made a new instance).
ErrorKeepsHeap ==
    RunFails =>
        /\ stack'.len = 0
        /\ frames' = <<>>
        /\ globals' = globals
        /\ SubSeq(instances', 1, Len(instances)) = instances
        /\ classes' = classes

\* The next Interpret starts with the globals and the objects the last one
\* left.
InterpretKeepsHeap ==
    (phase = "idle" /\ lineNo' = lineNo + 1) =>
        /\ globals' = globals
        /\ instances' = instances
        /\ classes' = classes

\* After the failing line the next line reads what it wrote.
KeptAfterError ==
    \A prog \in KeepPrograms :
        (session = KeepSession(prog) /\ phase = "idle") =>
            /\ lineNo = 2 => result.kind = "runtime"
            /\ lineNo = 3 => result.kind = "" /\ printed = prog.out

\* C38: a runtime error resets the value stack and the call frames only:
\* the globals defined or assigned and the fields written before the
\* failing instruction keep their values, and the globals of earlier
\* Interpret calls are defined in later ones.
C38_ErrorKeepsGlobals ==
    /\ [][ErrorKeepsHeap /\ InterpretKeepsHeap]_vars
    /\ []KeptAfterError

C38_Witness ==
    /\ \E prog \in KeepPrograms :
           session = KeepSession(prog) /\ prog.out = <<"5", "7">>
    /\ lineNo = 3
    /\ phase = "idle"
    /\ printed = <<"5", "7">>

\* The Parser of fun_ inside the parameter list of `fun f(p1, ..., pn,`
\* with the lexemes rest to come: parameter i is the local of slot i.
InParams(n, rest) ==
    LET p == beginScope(wrapCompiler(wrapCompiler(NewParser(<<>>, 1), "FScript"),
                                     "FFun"))
        q == SetCur(p, [Cur(p) EXCEPT
                 !.fun.arity = n,
                 !.locals = @ \o [i \in 1..n |->
                                    Local(Token("TIdent", 1, Param(i)), 1)]])
    IN advance([q EXCEPT !.scanner = NewScanner(rest),
                         !.curr = Token("TComma", 1, ",")])

\* The Parser of argList inside the call `f(nil, ..., nil,` with n
\* arguments compiled and the lexemes rest to come.
InArgs(n, rest) ==
    LET p == wrapCompiler(NewParser(<<>>, 2), "FScript")
        q == SetCur(p, [Cur(p) EXCEPT
                 !.fun.chunk = [code |-> <<OpGetGlobal, 0>>
                                             \o [i \in 1..n |-> OpNil],
                                lines |-> [i \in 1..(n + 2) |-> 1] \o <<>>,
                                consts |-> <<VStr(2, "f")>>]])
    IN advance([q EXCEPT !.scanner = NewScanner(rest),
                         !.curr = Token("TComma", 1, ",")])

\* Parameter n of a function declaration is accepted.
ParamAccepted(n) ==
    LET p == paramLoop(InParams(n - 1, <<Param(n), ")">>)) IN
    p.crash = "" /\ p.errors = <<>> /\ Cur(p).fun.arity = n

\* Parameter n is reported as a compile error.
ParamRejected(n) ==
    LET p == paramLoop(InParams(n - 1, <<Param(n), ")">>)) IN
    /\ p.crash = ""
    /\ p.errors = <<[Line |-> 1, At |-> Param(n), Reason |-> "too many parameters"]>>

\* Argument n of a call is accepted.
ArgAccepted(n) ==
    LET r == argListLoop(InArgs(n - 1, <<"nil", ")">>), n - 1) IN
    r.p.crash = "" /\ r.p.errors = <<>> /\ r.argCount = n

\* Argument n is reported as a compile error.
ArgRejected(n) ==
    LET r == argListLoop(InArgs(n - 1, <<"nil", ")">>), n - 1) IN
    /\ r.p.crash = ""
    /\ r.p.errors = <<[Line |-> 1, At |-> "nil", Reason |-> "too many arguments"]>>

\* A function of n parameters called with n arguments compiles and runs.
CallsWithArity ==
    \A n \in 0..MaxArity :
        (session = CallSession("fun", n, n) /\ lineNo = 2 /\ phase = "idle") =>
            result.kind = "" /\ result.val = VNum(5)

\* The states in which the limits are tried.
LimitsTried == session = CallSession("fun", MaxArity, MaxArity) /\ lineNo = 0

\* C39: a call accepts as many arguments as a declaration accepts
\* parameters, 255: a function of n parameters, 0 <= n <= 255, is called
\* with n arguments without a compile error, and one more is a compile
\* error in both places ("too many parameters", "too many arguments").
C39_SameLimit ==
    /\ CallsWithArity
    /\ LimitsTried =>
          /\ ParamAccepted(MaxUint8)
          /\ ArgAccepted(MaxUint8)
          /\ ParamRejected(MaxUint8 + 1)
          /\ ArgRejected(MaxUint8 + 1)

\* What the two loops do: the 255th parameter is accepted, the 256th is
\* reported and then addLocal aborts the compilation; the 254th argument
\* is accepted and the 255th is reported.
LimitsOfParamsAndArgs ==
    /\ CallsWithArity
    /\ LimitsTried =>
          /\ ParamAccepted(MaxUint8)
          /\ LET p == paramLoop(InParams(MaxUint8,
                                         <<Param(MaxUint8 + 1), ")">>))
             IN /\ p.errors = <<[Line |-> 1, At |-> Param(MaxUint8 + 1),
                                 Reason |-> "too many parameters"]>>
                /\ p.crash = "too many variables in function"
          /\ ArgAccepted(MaxUint8 - 1)
          /\ ArgRejected(MaxUint8)

====
